---- MODULE Spec2Model ----
(***************************************************************************)
(* A state-machine model of the Physi ball simulation (jesperls/Physi):    *)
(* the GameState singleton, Ball.update, handle_ball_collisions,           *)
(* update_game_objects, the spawn functions and the main loop of Game.     *)
(*                                                                         *)
(* Numbers.  The program computes in floating point; the model computes    *)
(* in fixed point, every quotient rounded to the nearest unit:             *)
(*   lengths (positions, radii)   1/PX of a pixel, positions relative to   *)
(*                                CENTER (the container's centre is 0,0)  *)
(*   velocities                   pixels per second                        *)
(*   times (time.time(), dt)      milliseconds                             *)
(*   unit vectors, fractions      thousandths (ONE = 1000)                 *)
(*   masses                       hundredths of the program's mass unit    *)
(*   hues                         hundredths of a degree                   *)
(***************************************************************************)
EXTENDS Integers, Sequences, FiniteSets, TLC

\* ------------------------------------------------------------ resolution

\* Length units per pixel (the fixed-point resolution of pygame.Vector2).
PX == 50
\* The fixed-point one of fractions and unit vectors.
ONE == 1000

\* ------------------------------------------------------ config constants

SCREEN_WIDTH == 900
SCREEN_HEIGHT == 900
FPS == 144
CONTAINER_RADIUS == 400 * PX
\* px/s^2
GRAVITY_STRENGTH == 100
\* px/s
MAX_VELOCITY == 1000
GRAVITY_CENTER_DEADZONE == 0
INITIAL_BALLS == 3
MIN_RADIUS == 10 * PX
MAX_RADIUS == 40 * PX
\* BASE_DENSITY = 0.1, in tenths
BASE_DENSITY_X10 == 1
\* DRAG_COEFFICIENT = 0.999, in ten-thousandths
DRAG_COEFFICIENT_E4 == 9990
\* COLOR_SHIFT_BASE_RATE = 5.0 degrees/s, in hundredths of a degree per second
COLOR_SHIFT_BASE_RATE_E2 == 500
\* COLOR_SHIFT_OSCILLATION = 0.6, in thousandths
COLOR_SHIFT_OSCILLATION_E3 == 600
\* GROWTH_RATE = 0.3 px/s, in thousandths of a pixel per second
GROWTH_RATE_E3 == 300
COLOR_DISTANCE_THRESHOLD == 70
\* SPLIT_TINT_FACTOR = 0, in thousandths
SPLIT_TINT_FACTOR_E3 == 0
\* MERGE_AREA_FACTOR = 1.0, in thousandths
MERGE_AREA_FACTOR_E3 == 1000
\* SPLIT_MASS_LOSS_FACTOR = 1.2, in thousandths
SPLIT_MASS_LOSS_FACTOR_E3 == 1200
MIN_SPLIT_RADIUS == 12 * PX
TRAIL_LENGTH == 8
\* FLASH_DURATION = 0.2 s, POP_FLASH_DURATION = 0.3 s, in ms
FLASH_DURATION == 200
POP_FLASH_DURATION == 300
PARTICLE_COUNT_COLLISION == 15
PARTICLE_COUNT_SPLIT_MERGE == 30
PARTICLE_COUNT_POP == 20
\* PARTICLE_LIFESPAN = 0.6 s, in ms
PARTICLE_LIFESPAN == 600
\* SHAKE_DURATION = 0.15 s, in ms
SHAKE_DURATION == 150
SHAKE_INTENSITY == 5
\* INTRO_DURATION = 3.0 s, MAX_GAME_DURATION = 60 s, FINALE_START_TIME = 55 s, in ms
INTRO_DURATION == 3000
\* INTRO_FADE_OVERLAP = 0.5, in thousandths
INTRO_FADE_OVERLAP_E3 == 500
MAX_GAME_DURATION == 60000
FINALE_START_TIME == 55000
FINALE_BALLS_COUNT == 0
MAX_BALL_COUNT == 15
\* dt = min(dt, 0.05) in Game.run, in ms
DT_CAP == 50
\* ending_duration = 3.0 s in Game._run_ending_sequence, in ms
ENDING_DURATION == 3000

\* ------------------------------------------------------------ arithmetic

Abs(a) == IF a < 0 THEN -a ELSE a
Min(a, b) == IF a < b THEN a ELSE b
Max(a, b) == IF a > b THEN a ELSE b

\* a / b rounded to the nearest integer (halves away from zero), b > 0.
RoundDiv(a, b) ==
  IF a >= 0 THEN (a + b \div 2) \div b ELSE -(((-a) + b \div 2) \div b)

\* The integer square root: the largest s with s * s <= n.
RECURSIVE SqrtSearch(_, _, _)
SqrtSearch(n, lo, hi) ==
  IF lo >= hi THEN lo
  ELSE LET mid == (lo + hi + 1) \div 2
       IN IF mid * mid <= n THEN SqrtSearch(n, mid, hi) ELSE SqrtSearch(n, lo, mid - 1)

\* math.sqrt, rounded to the nearest integer.
Sqrt(n) ==
  LET s == SqrtSearch(n, 0, Min(n, 46340))
  IN IF n - s * s > s THEN s + 1 ELSE s

\* ----------------------------------------------------- pygame.Vector2

Vec(x, y) == [x |-> x, y |-> y]
ZeroVec == Vec(0, 0)
VAdd(a, b) == Vec(a.x + b.x, a.y + b.y)
VSub(a, b) == Vec(a.x - b.x, a.y - b.y)
VNeg(a) == Vec(-a.x, -a.y)
\* a * (n / d)
VScale(a, n, d) == Vec(RoundDiv(a.x * n, d), RoundDiv(a.y * n, d))
VDot(a, b) == a.x * b.x + a.y * b.y
LengthSquared(a) == a.x * a.x + a.y * a.y
Length(a) == Sqrt(LengthSquared(a))
\* Vector2.normalize(), a unit vector in thousandths; a is not the zero vector.
Normalize(a) == LET l == Length(a) IN Vec(RoundDiv(a.x * ONE, l), RoundDiv(a.y * ONE, l))
\* The tangent (-n.y, n.x) of a normal n.
Tangent(n) == Vec(-n.y, n.x)

\* -------------------------------------------------------------- math.sin

\* math.sin of an angle in degrees, in thousandths (Bhaskara's rational
\* approximation, exact at 0, 30, 90, 150 and 180 degrees).
SinHalf(d) == RoundDiv(4 * d * (180 - d) * ONE, 40500 - d * (180 - d))
SinDeg(deg) ==
  LET d == deg % 360
  IN IF d <= 180 THEN SinHalf(d) ELSE -SinHalf(d - 180)
\* t * rate in degrees, for a time t in ms and a rate in hundredths of a
\* radian per second (one radian is 57.3 degrees), and math.sin(t * rate).
DegOfTime(t, rate_e2) == RoundDiv(RoundDiv((t % 1000000) * rate_e2, 100) * 573, 10000)
SinOfTime(t, rate_e2) == SinDeg(DegOfTime(t, rate_e2))

\* ---------------------------------------------------------- pygame.Color

Rgb(r, g, b) == [r |-> r, g |-> g, b |-> b]
WHITE == Rgb(255, 255, 255)

\* Color.hsva = (h, s, v, 100): h in hundredths of a degree, s and v in
\* thousandths; the channels are cut to 8 bits.
HsvToRgb(h, s, v) ==
  LET hh == h % 36000
      hi == hh \div 6000
      f == RoundDiv((hh % 6000) * ONE, 6000)
      p == RoundDiv(v * (ONE - s), ONE)
      q == RoundDiv(v * (ONE - RoundDiv(s * f, ONE)), ONE)
      t == RoundDiv(v * (ONE - RoundDiv(s * (ONE - f), ONE)), ONE)
      ch(x) == (x * 255) \div ONE
  IN CASE hi = 0 -> Rgb(ch(v), ch(t), ch(p))
       [] hi = 1 -> Rgb(ch(q), ch(v), ch(p))
       [] hi = 2 -> Rgb(ch(p), ch(v), ch(t))
       [] hi = 3 -> Rgb(ch(p), ch(q), ch(v))
       [] hi = 4 -> Rgb(ch(t), ch(p), ch(v))
       [] OTHER -> Rgb(ch(v), ch(p), ch(q))

\* Color.hsva[0]: the hue of an RGB colour, in hundredths of a degree
\* (0 for a grey).
HueOf(c) ==
  LET maxv == Max(c.r, Max(c.g, c.b))
      minv == Min(c.r, Min(c.g, c.b))
      diff == maxv - minv
      raw == IF maxv = c.r THEN RoundDiv(6000 * (c.g - c.b), diff)
             ELSE IF maxv = c.g THEN RoundDiv(6000 * (c.b - c.r), diff) + 12000
             ELSE RoundDiv(6000 * (c.r - c.g), diff) + 24000
  IN IF diff = 0 THEN 0 ELSE raw % 36000

\* utilities.color_distance, squared: the comparisons of the program
\* (color_distance(c1, c2) < threshold) are made on the squares, which is
\* the comparison of the unrounded distances.
color_distance_sq(c1, c2) ==
  (c1.r - c2.r) * (c1.r - c2.r) + (c1.g - c2.g) * (c1.g - c2.g)
    + (c1.b - c2.b) * (c1.b - c2.b)
ColorCloser(c1, c2, threshold) == color_distance_sq(c1, c2) < threshold * threshold

\* utilities.lerp_color: c1.lerp(c2, factor), the factor (in thousandths)
\* clamped to [0, 1].
lerp_color(c1, c2, factor) ==
  LET f == Max(0, Min(ONE, factor))
      mix(a, b) == a + RoundDiv((b - a) * f, ONE)
  IN Rgb(mix(c1.r, c2.r), mix(c1.g, c2.g), mix(c1.b, c2.b))

\* ------------------------------------------------------------------ state

VARIABLES
  game_state,   \* the GameState singleton (src/game_state.py)
  now,          \* time.time(), in ms
  sounds,       \* the number of audio_manager.play requests made so far
  pc,           \* where the program is: the main loop and the loops within a frame
  loc,          \* the locals of the frame being run (Game.run, update_game_objects,
                \* handle_ball_collisions, create_initial_balls)
  frames,       \* the number of main-loop iterations started
  inputs,       \* the number of non-empty event batches delivered so far
  log           \* the overlapping pairs the current handle_ball_collisions call
                \* has resolved and what became of them (merge, split, bounce,
                \* apart), for the properties

vars == <<game_state, now, sounds, pc, loc, frames, inputs, log>>

\* time.time() when the process starts (any positive time).
T0 == 1000

\* ------------------------------------------------------------- GameState

PhaseNames == {"CALM", "BUILD", "CHAOS", "FINALE"}

\* phase_timings of GameState.update_phase, in ms.
PhaseStart(p) ==
  CASE p = "CALM" -> 0 [] p = "BUILD" -> 15000 [] p = "CHAOS" -> 35000 [] OTHER -> 50000
PhaseEnd(p) ==
  CASE p = "CALM" -> 15000 [] p = "BUILD" -> 35000 [] p = "CHAOS" -> 50000 [] OTHER -> 60000

\* The values GameState.__init__ and GameState.reset give the adaptive
\* parameters: shrink factor in hundred-thousandths, elasticity and split
\* chance in thousandths, gravity in px/s^2.
InitialParameters ==
  [current_collision_shrink_factor |-> 0,
   current_elasticity_base |-> 1000,
   current_elasticity_variance |-> 0,
   current_split_chance |-> 0,
   current_merge_threshold |-> 70,
   current_gravity_strength |-> 100]

\* A reset that leaves the phase, the adaptive parameters and the finale
\* mark of the game before.
resetKeepsPhase(gs, t) ==
  [gs EXCEPT
     !.balls = <<>>, !.particles = <<>>, !.effects = <<>>,
     !.next_ball_id = 0,
     !.intro_phase = TRUE,
     !.intro_start_time = t,
     !.game_start_time = 0,
     !.screen_shake_timer = 0,
     !.current_screen_offset = ZeroVec,
     !.phase_start_times = [CALM |-> t, BUILD |-> 0, CHAOS |-> 0, FINALE |-> 0]]

\* GameState.reset at time t; running is not touched.
reset(gs, t) ==
  [gs EXCEPT
     !.balls = <<>>, !.particles = <<>>, !.effects = <<>>,
     !.next_ball_id = 0,
     !.intro_phase = TRUE,
     !.intro_start_time = t,
     !.game_start_time = 0,
     !.finale_triggered = FALSE,
     !.screen_shake_timer = 0,
     !.current_screen_offset = ZeroVec,
     !.current_phase = "CALM",
     !.phase_start_times = [CALM |-> t, BUILD |-> 0, CHAOS |-> 0, FINALE |-> 0],
     !.parameters = InitialParameters]

\* GameState.__init__.
NewGameState ==
  [intro_phase |-> TRUE, intro_start_time |-> 0, game_start_time |-> 0,
   finale_triggered |-> FALSE, running |-> TRUE,
   current_phase |-> "CALM",
   phase_start_times |-> [CALM |-> 0, BUILD |-> 0, CHAOS |-> 0, FINALE |-> 0],
   balls |-> <<>>, particles |-> <<>>, effects |-> <<>>,
   next_ball_id |-> 0,
   screen_shake_timer |-> 0, current_screen_offset |-> ZeroVec,
   parameters |-> InitialParameters]

\* The phase whose [start, end) holds elapsed_time, or "NONE".
PhaseAt(elapsed_time) ==
  IF \E p \in PhaseNames : PhaseStart(p) <= elapsed_time /\ elapsed_time < PhaseEnd(p)
  THEN CHOOSE p \in PhaseNames : PhaseStart(p) <= elapsed_time /\ elapsed_time < PhaseEnd(p)
  ELSE "NONE"

\* GameState.update_phase: its return value ...
PhaseChanges(gs, elapsed_time) ==
  PhaseAt(elapsed_time) /= "NONE" /\ PhaseAt(elapsed_time) /= gs.current_phase
\* ... and the state it leaves, at time t.
update_phase(gs, elapsed_time, t) ==
  IF PhaseChanges(gs, elapsed_time)
  THEN [gs EXCEPT !.current_phase = PhaseAt(elapsed_time),
                  !.phase_start_times[PhaseAt(elapsed_time)] = t]
  ELSE gs

\* The length of a phase in get_phase_progress, in ms.
PhaseLength(p) ==
  CASE p = "CALM" -> 15000 [] p = "BUILD" -> 20000 [] p = "CHAOS" -> 15000 [] OTHER -> 10000

\* A variant of get_phase_progress without the min(1.0, ...).
UncappedProgress(gs, t) ==
  RoundDiv((t - gs.phase_start_times[gs.current_phase]) * ONE,
           PhaseLength(gs.current_phase))

\* GameState.get_phase_progress at time t, in thousandths.
get_phase_progress(gs, t) ==
  Min(ONE, RoundDiv((t - gs.phase_start_times[gs.current_phase]) * ONE,
                    PhaseLength(gs.current_phase)))

\* initial + progress * span, progress in thousandths.
Ramp(initial, span, progress) == initial + RoundDiv(progress * span, ONE)

\* GameState.update_adaptive_parameters at time t.
AdaptiveParameters(phase, progress) ==
  CASE phase = "CALM" ->
         [current_collision_shrink_factor |-> Ramp(100, 400, progress),
          current_elasticity_base |-> 1000,
          current_elasticity_variance |-> Ramp(50, 100, progress),
          current_split_chance |-> Ramp(10, 90, progress),
          current_merge_threshold |-> 80,
          current_gravity_strength |-> Ramp(100, 50, progress)]
    [] phase = "BUILD" ->
         [current_collision_shrink_factor |-> Ramp(500, 1500, progress),
          current_elasticity_base |-> Ramp(1000, 100, progress),
          current_elasticity_variance |-> Ramp(150, 150, progress),
          current_split_chance |-> Ramp(100, 300, progress),
          current_merge_threshold |-> 60,
          current_gravity_strength |-> Ramp(150, 150, progress)]
    [] phase = "CHAOS" ->
         [current_collision_shrink_factor |-> Ramp(2000, 2000, progress),
          current_elasticity_base |-> Ramp(1100, 100, progress),
          current_elasticity_variance |-> 300,
          current_split_chance |-> Ramp(400, 200, progress),
          current_merge_threshold |-> 40,
          current_gravity_strength |-> Ramp(300, 200, progress)]
    [] OTHER ->
         [current_collision_shrink_factor |-> 4000,
          current_elasticity_base |-> 1200,
          current_elasticity_variance |-> 300,
          current_split_chance |-> Ramp(600, 300, progress),
          current_merge_threshold |-> 20,
          current_gravity_strength |-> Ramp(500, 300, progress)]

update_adaptive_parameters(gs, t) ==
  [gs EXCEPT !.parameters = AdaptiveParameters(gs.current_phase, get_phase_progress(gs, t))]

\* A variant of trigger_screen_shake without the cap of the timer.
TriggerShakeUncapped(gs, duration) ==
  [gs EXCEPT !.screen_shake_timer = gs.screen_shake_timer + duration]

\* utilities.trigger_screen_shake(duration, intensity): the timer, in ms,
\* grows by the duration up to 3 * SHAKE_DURATION (the intensity is unused).
trigger_screen_shake(gs, duration) ==
  [gs EXCEPT !.screen_shake_timer = Min(SHAKE_DURATION * 3, gs.screen_shake_timer + duration)]

\* ------------------------------------------------------ Effect, Particle

\* An Effect: its start time and duration in ms (its position, colour and
\* radii are read by the renderer only).  Effect.update at time t.
Effect(t, duration) == [start_time |-> t, duration |-> duration]
EffectAlive(e, t) == t - e.start_time < e.duration

\* The particles of one burst, which share their start time; lifespan in ms.
Particle(t, lifespan, count) == [start_time |-> t, lifespan |-> lifespan, count |-> count]
\* Particle.update at time t: whether the particle is kept.
ParticleAlive(p, t) == t - p.start_time < p.lifespan

\* utilities.spawn_particles: count particles of lifespan
\* PARTICLE_LIFESPAN * uniform(0.7, 1.3) * lifespan_mod; the burst is drawn
\* one factor (in thousandths); lifespan_mod in thousandths.
spawn_particles(particles, t, count, lifespan_mod, factor) ==
  IF count > 0
  THEN Append(particles,
              Particle(t, RoundDiv(RoundDiv(PARTICLE_LIFESPAN * factor, ONE) * lifespan_mod, ONE),
                       count))
  ELSE particles

\* ------------------------------------------------------------------ Ball

\* mass = BASE_DENSITY * radius ** 2, in hundredths.
MassOf(radius) == RoundDiv(BASE_DENSITY_X10 * radius * radius * 10, PX * PX)

\* Ball.__init__ without ball_id (no caller passes one): the ball and the
\* game state with the id counter advanced.  osc holds the oscillator
\* parameters drawn at creation; origin names the creating code (a history
\* field for the properties, as is updated: whether Ball.update has run).
\* The trail is kept as its length; base_color and pulse_frequency are
\* read by no update and are left out.
Ball(gs, position, velocity, radius, color, osc, origin) ==
  [id |-> gs.next_ball_id,
   position |-> position,
   velocity |-> velocity,
   radius |-> radius,
   mass |-> MassOf(radius),
   current_color |-> color,
   hue |-> HueOf(color),
   should_remove |-> FALSE,
   hit_wall_effect_info |-> FALSE,
   trail |-> 0,
   pulse_offset |-> osc.pulse_offset,
   color_shift_rate |-> osc.color_shift_rate,
   color_shift_direction |-> osc.color_shift_direction,
   gravity_strength |-> GRAVITY_STRENGTH,
   origin |-> origin,
   updated |-> FALSE]

\* A variant of AppendBall that leaves the id counter where it is.
AppendBallSameId(gs, position, velocity, radius, color, osc, origin) ==
  [gs EXCEPT !.balls = Append(gs.balls, Ball(gs, position, velocity, radius, color, osc, origin))]

\* game_state.balls.append(Ball(...)).
AppendBall(gs, position, velocity, radius, color, osc, origin) ==
  [gs EXCEPT !.balls = Append(gs.balls, Ball(gs, position, velocity, radius, color, osc, origin)),
             !.next_ball_id = gs.next_ball_id + 1]

\* A variant of ClampedRadius without the clamp.
UnclampedRadius(radius) == radius

\* self.radius = min(self.radius, MAX_RADIUS) of Ball.update.
ClampedRadius(radius) == Min(radius, MAX_RADIUS)

\* GROWTH_RATE * dt, in length units.
Growth(dt) == RoundDiv(GROWTH_RATE_E3 * dt * PX, ONE * ONE)

\* The colour shift of Ball.update at time t.
ShiftedHue(self, dt, t) ==
  LET oscillation == RoundDiv(SinOfTime(t, 30) * COLOR_SHIFT_OSCILLATION_E3, ONE * 10)
      shift_amount == RoundDiv((self.color_shift_rate + oscillation) * dt, ONE)
  IN (self.hue + self.color_shift_direction * shift_amount) % 36000
PulsedColor(self, hue, t) ==
  LET angle == DegOfTime(t, 20) + self.pulse_offset
      pulse_value == (SinDeg(angle) + ONE) \div 2
      s == Max(800, Min(ONE, 800 + RoundDiv(pulse_value * 200, ONE)))
      v == Max(850, Min(ONE, 850 + RoundDiv(pulse_value * 150, ONE)))
  IN HsvToRgb(hue, s, v)

\* The gravity step of Ball.update (lines 211-234): the velocity after it.
\* The deadzone is 0, so the nudge branch (distance < deadzone / 2) is
\* never taken; the mass cancels between the force and the acceleration.
NormalizedDist(distance) ==
  Min(ONE, RoundDiv((distance - GRAVITY_CENTER_DEADZONE) * ONE,
                    CONTAINER_RADIUS - GRAVITY_CENTER_DEADZONE))
GravityFalloff(normalized_dist) ==
  RoundDiv(ONE * ONE * ONE, 200 * ONE + normalized_dist * normalized_dist)
GravityAccel(distance, gravity_strength) ==
  RoundDiv(gravity_strength * GravityFalloff(NormalizedDist(distance)), ONE)
AfterGravity(position, velocity, gravity_strength, dt) ==
  IF LengthSquared(VNeg(position)) > 0 /\ Length(VNeg(position)) > GRAVITY_CENTER_DEADZONE
  THEN VAdd(velocity,
            VScale(Normalize(VNeg(position)),
                   RoundDiv(GravityAccel(Length(VNeg(position)), gravity_strength) * dt, ONE),
                   ONE))
  ELSE velocity

\* The per-phase constants of Ball.update.
PhaseDrag(phase) ==
  CASE phase = "BUILD" -> Min(10000, DRAG_COEFFICIENT_E4 + 5)
    [] phase = "CHAOS" -> Min(10000, DRAG_COEFFICIENT_E4 + 10)
    [] phase = "FINALE" -> Min(10000, DRAG_COEFFICIENT_E4 + 20)
    [] OTHER -> DRAG_COEFFICIENT_E4
PhaseMaxVelocity(phase) ==
  CASE phase = "BUILD" -> RoundDiv(MAX_VELOCITY * 12, 10)
    [] phase = "CHAOS" -> RoundDiv(MAX_VELOCITY * 15, 10)
    [] phase = "FINALE" -> MAX_VELOCITY * 2
    [] OTHER -> MAX_VELOCITY
WallShrinkFactor(phase) ==
  CASE phase = "BUILD" -> 1 [] phase = "CHAOS" -> 2 [] phase = "FINALE" -> 3 [] OTHER -> 0
WallElasticity(phase) ==
  CASE phase = "BUILD" -> 985 [] phase = "CHAOS" -> 990 [] phase = "FINALE" -> 995
    [] OTHER -> 980

\* Vector2.scale_to_length.
ScaleToLength(v, l) == VScale(v, l, Length(v))

\* The velocity clamp of Ball.update (lines 258-268).
ClampSpeed(velocity, phase) ==
  IF LengthSquared(velocity) > PhaseMaxVelocity(phase) * PhaseMaxVelocity(phase)
  THEN ScaleToLength(velocity, PhaseMaxVelocity(phase))
  ELSE velocity

\* Vector2.reflect_ip(normal).
Reflect(v, normal) == VSub(v, VScale(normal, 2 * RoundDiv(VDot(v, normal), ONE), ONE))

\* The radius after the wall shrink (lines 286-298): wall_impact is
\* abs(velocity . normal) / 1000, the shrink factor in thousandths.
WallRadius(radius, velocity, normal, phase) ==
  IF phase /= "CALM"
  THEN Max(MIN_RADIUS,
           radius - RoundDiv(radius * WallShrinkFactor(phase)
                               * RoundDiv(Abs(VDot(velocity, normal)), ONE),
                             ONE * ONE))
  ELSE radius

\* The tangential component added to a bounced velocity (lines 315-320):
\* tangent is the drawn signed fraction of the speed, in thousandths, 0
\* when random.random() >= 0.3.
AddTangent(bounced, normal, tangent) ==
  IF tangent /= 0
  THEN VAdd(bounced, VScale(Tangent(normal), RoundDiv(Length(bounced) * tangent, ONE), ONE))
  ELSE bounced

\* The wall collision of Ball.update (lines 282-330) for a ball beyond the
\* wall by overlap, along normal.
WallHit(self, overlap, normal, phase, draw) ==
  [self EXCEPT
     !.position = VSub(self.position, VScale(normal, overlap, ONE)),
     !.radius = WallRadius(self.radius, self.velocity, normal, phase),
     !.mass = IF phase /= "CALM"
              THEN MassOf(WallRadius(self.radius, self.velocity, normal, phase))
              ELSE self.mass,
     !.velocity = AddTangent(VScale(Reflect(self.velocity, normal), WallElasticity(phase), ONE),
                             normal, draw.tangent),
     !.hit_wall_effect_info = TRUE]

\* The boundary step of Ball.update (lines 271-330) on a ball already
\* moved, at dist_from_center: the ball, and whether the wall was hit.
\* draw.normal is the random unit vector used when the ball sits exactly
\* at the centre.
BoundaryAt(self, dist_from_center, phase, draw) ==
  IF dist_from_center + self.radius > CONTAINER_RADIUS
  THEN [ball |-> WallHit(self, (dist_from_center + self.radius) - CONTAINER_RADIUS,
                         IF dist_from_center > 0 THEN Normalize(self.position)
                         ELSE draw.normal,
                         phase, draw),
        hit |-> TRUE]
  ELSE [ball |-> self, hit |-> FALSE]
BoundaryStep(self, phase, draw) == BoundaryAt(self, Length(self.position), phase, draw)

\* The trail of Ball.update (lines 165-168), kept as its length.
TrailAfter(self, dt) == IF dt > 0 THEN Min(self.trail + 1, TRAIL_LENGTH) ELSE self.trail

\* Lines 178-268 of Ball.update: the ball with the clamped radius, the
\* shifted hue and the velocity after gravity and drag, before the
\* boundary step.
Moved(self, dt, phase, t, radius, hue, dragged) ==
  [self EXCEPT !.trail = TrailAfter(self, dt), !.radius = radius, !.hue = hue,
               !.current_color = PulsedColor(self, hue, t), !.mass = MassOf(radius),
               !.position = VAdd(self.position, VScale(dragged, dt * PX, ONE)),
               !.velocity = ClampSpeed(dragged, phase),
               !.updated = TRUE]

\* What Ball.update returns after the boundary step, and the sound of a
\* wall hit.
Updated(bounded) ==
  [ball |-> bounded.ball, result |-> TRUE, sounds |-> IF bounded.hit THEN 1 ELSE 0]

\* Ball.update without the early return of lines 172-175: a ball below
\* MIN_RADIUS goes through the colour shift, the forces and the boundary
\* step like any other.
BallUpdateNoEarlyReturn(self, dt, phase, t, draw) ==
  Updated(BoundaryStep(
            Moved(self, dt, phase, t, ClampedRadius(self.radius + Growth(dt)),
                  ShiftedHue(self, dt, t),
                  VScale(AfterGravity(self.position, self.velocity,
                                      self.gravity_strength, dt),
                         PhaseDrag(phase), 10000)),
            phase, draw))

\* Ball.update(dt) at time t in the given phase: the ball after it, the
\* value returned, and the number of sounds requested.
BallUpdate(self, dt, phase, t, draw) ==
  IF self.radius + Growth(dt) < MIN_RADIUS
  THEN [ball |-> [self EXCEPT !.trail = TrailAfter(self, dt),
                              !.radius = self.radius + Growth(dt),
                              !.should_remove = TRUE, !.updated = TRUE],
        result |-> FALSE, sounds |-> 0]
  ELSE Updated(BoundaryStep(
                 Moved(self, dt, phase, t, ClampedRadius(self.radius + Growth(dt)),
                       ShiftedHue(self, dt, t),
                       VScale(AfterGravity(self.position, self.velocity,
                                           self.gravity_strength, dt),
                              PhaseDrag(phase), 10000)),
                 phase, draw))

\* ------------------------------------------- handle_ball_collisions

\* The per-phase constants of handle_ball_collisions, in thousandths.
PhaseSpinBonus(phase) ==
  CASE phase = "BUILD" -> 50 [] phase = "CHAOS" -> 100 [] phase = "FINALE" -> 150
    [] OTHER -> 0
PhaseMassLoss(phase) ==
  CASE phase = "CALM" -> 1050 [] phase = "BUILD" -> 1150 [] phase = "CHAOS" -> 1250
    [] phase = "FINALE" -> 1350 [] OTHER -> SPLIT_MASS_LOSS_FACTOR_E3
PhaseVelBonus(phase) ==
  CASE phase = "BUILD" -> 1200 [] phase = "CHAOS" -> 1400 [] phase = "FINALE" -> 1600
    [] OTHER -> 1000
PhaseColorVariance(phase) ==
  CASE phase = "BUILD" -> 200 [] phase = "CHAOS" -> 300 [] phase = "FINALE" -> 400
    [] OTHER -> 100

\* pair_id = tuple(sorted((a, b))).
PairId(a, b) == <<Min(a, b), Max(a, b)>>

\* Step 1 of a pair: the overlap is resolved in proportion to the other
\* ball's share of total_mass.  The balls a and b after it.
ResolveOverlap(a, b, normal, overlap) ==
  LET total_mass == a.mass + b.mass
  IN IF total_mass > 0
     THEN <<[a EXCEPT !.position =
                VAdd(a.position,
                     VScale(normal, RoundDiv(overlap * b.mass, total_mass), ONE))],
            [b EXCEPT !.position =
                VSub(b.position,
                     VScale(normal, RoundDiv(overlap * a.mass, total_mass), ONE))]>>
     ELSE <<[a EXCEPT !.position = VAdd(a.position, VScale(normal, overlap, 2 * ONE))],
            [b EXCEPT !.position = VSub(b.position, VScale(normal, overlap, 2 * ONE))]>>

\* impact_force = min(1.0, abs(vel_along_normal) / 2000.0), in thousandths.
ImpactForce(vel_along_normal) == Min(ONE, RoundDiv(Abs(vel_along_normal), 2))

\* shrink_amount = impact_force * collision_shrink_factor * dt * 60, in
\* hundred-thousandths.
ShrinkAmount(impact_force, collision_shrink_factor, dt) ==
  RoundDiv(RoundDiv(impact_force * collision_shrink_factor, ONE) * dt * 60, ONE)

\* A variant of Shrunk that leaves the mass of the old radius.
ShrunkStaleMass(ball, shrink_amount) ==
  LET radius == ball.radius - RoundDiv(shrink_amount * ball.radius, 100 * ONE)
  IN [ball EXCEPT !.radius = radius,
                  !.should_remove = ball.should_remove \/ radius < MIN_RADIUS]

\* ball.radius -= shrink_amount * ball.radius, the should_remove mark and
\* the mass update of one ball.
Shrunk(ball, shrink_amount) ==
  LET radius == ball.radius - RoundDiv(shrink_amount * ball.radius, 100 * ONE)
  IN [ball EXCEPT !.radius = radius,
                  !.should_remove = ball.should_remove \/ radius < MIN_RADIUS,
                  !.mass = MassOf(radius)]

\* Step 2 of an approaching pair: shrink, impulse and spin.  m1 and m2 are
\* the masses before the shrink; the velocity change of a ball is
\* impulse_scalar / its mass = -2 * elasticity * vel_along_normal * (the
\* other's share of m1 + m2).
CollisionResponse(a, b, normal, vel_along_normal, impact_force, P, dt, phase, draw) ==
  LET m1 == a.mass
      m2 == b.mass
      elasticity ==
        Max(900, Min(1300, P.current_elasticity_base
                           + RoundDiv(draw.elasticity * P.current_elasticity_variance, ONE)))
      push == RoundDiv(-2 * elasticity * vel_along_normal, ONE)
      dv1 == RoundDiv(push * RoundDiv(m2 * ONE, m1 + m2), ONE)
      dv2 == RoundDiv(push * RoundDiv(m1 * ONE, m1 + m2), ONE)
      shrink_amount == ShrinkAmount(impact_force, P.current_collision_shrink_factor, dt)
      sa == Shrunk(a, shrink_amount)
      sb == Shrunk(b, shrink_amount)
      va == VAdd(a.velocity, VScale(normal, dv1, ONE))
      vb == VSub(b.velocity, VScale(normal, dv2, ONE))
      spins == draw.spin_roll < 250 + RoundDiv(impact_force, 2)
      spin_factor ==
        RoundDiv(80 * (ONE - RoundDiv(Min(sa.radius, sb.radius) * ONE, MAX_RADIUS)), ONE)
        + PhaseSpinBonus(phase)
      tangent == Tangent(normal)
      wa == IF spins
            THEN VAdd(va, VScale(tangent, RoundDiv(dv1 * spin_factor, ONE) * draw.spin_a, ONE))
            ELSE va
      wb == IF spins
            THEN VSub(vb, VScale(tangent, RoundDiv(dv2 * spin_factor, ONE) * draw.spin_b, ONE))
            ELSE vb
  IN <<[sa EXCEPT !.velocity = wa], [sb EXCEPT !.velocity = wb]>>

\* A variant of MergedRadius that loses no area.
MergedRadiusNoLoss(ra, rb, impact_force) ==
  Max(MIN_RADIUS, Min(RoundDiv(Sqrt(ra * ra + rb * rb) * MERGE_AREA_FACTOR_E3, ONE),
                      RoundDiv(MAX_RADIUS * 12, 10)))

\* The radius of a merged ball.
MergedRadius(ra, rb, impact_force) ==
  LET area_loss == 20 + RoundDiv(50 * impact_force, ONE)
      kept == RoundDiv(RoundDiv(ra * ra + rb * rb, 10) * (ONE - area_loss), 100)
      new_radius == RoundDiv(Sqrt(kept) * MERGE_AREA_FACTOR_E3, ONE)
  IN Max(MIN_RADIUS, Min(new_radius, RoundDiv(MAX_RADIUS * 12, 10)))

\* The position and velocity of a merged ball: the sums weighted by the
\* masses after the shrink, divided by total_mass, the sum of the masses
\* before the shrink (line 61).
MergedVector(xa, ma, xb, mb, total_mass) ==
  IF total_mass > 0
  THEN Vec(RoundDiv(xa.x * ma + xb.x * mb, total_mass),
           RoundDiv(xa.y * ma + xb.y * mb, total_mass))
  ELSE Vec(RoundDiv(xa.x + xb.x, 2), RoundDiv(xa.y + xb.y, 2))

\* CENTER, in screen coordinates, and the position of a merged ball: the
\* program's positions are screen positions, and the quotient by
\* total_mass is taken of them.
CENTER == Vec((SCREEN_WIDTH \div 2) * PX, (SCREEN_HEIGHT \div 2) * PX)
MergedPosition(xa, ma, xb, mb, total_mass) ==
  VSub(MergedVector(VAdd(xa, CENTER), ma, VAdd(xb, CENTER), mb, total_mass), CENTER)

\* split_mass_loss, in thousandths, and the radius of a split child.
SplitMassLoss(phase, impact_force) == PhaseMassLoss(phase) + RoundDiv(impact_force * 200, ONE)
\* (A variant of SplitRadius that halves the area without the loss.)
SplitRadiusNoLoss(victim_radius, split_mass_loss) ==
  Sqrt((victim_radius * victim_radius) \div 2)
SplitRadius(victim_radius, split_mass_loss) ==
  Sqrt(RoundDiv(victim_radius * victim_radius * 50, split_mass_loss) * 10)

\* A variant of SplitVictim that takes the smaller of two eligible balls.
SplitVictimSmaller(a, b, draw) ==
  LET can_a_split == a.radius >= MIN_SPLIT_RADIUS
      can_b_split == b.radius >= MIN_SPLIT_RADIUS
  IN IF can_a_split /\ can_b_split
     THEN IF a.radius < b.radius THEN "a"
          ELSE IF b.radius < a.radius THEN "b"
          ELSE draw.tie
     ELSE IF can_a_split THEN "a"
     ELSE IF can_b_split THEN "b"
     ELSE "none"

\* The victim of a split: "a", "b" or "none".
SplitVictim(a, b, draw) ==
  LET can_a_split == a.radius >= MIN_SPLIT_RADIUS
      can_b_split == b.radius >= MIN_SPLIT_RADIUS
  IN IF can_a_split /\ can_b_split
     THEN IF a.radius > b.radius THEN "a"
          ELSE IF b.radius > a.radius THEN "b"
          ELSE draw.tie
     ELSE IF can_a_split THEN "a"
     ELSE IF can_b_split THEN "b"
     ELSE "none"

\* One child of a split (k = 1, 2): its position, velocity and colour.
SplitChild(victim, other, normal, new_radius, phase, draw, k) ==
  LET perp_normal == VScale(Tangent(normal), draw.perp, 1)
      offset_dir == IF k = 1 THEN perp_normal ELSE VNeg(perp_normal)
      new_pos == VAdd(victim.position,
                      VScale(offset_dir, RoundDiv(new_radius * 11, 10) + 2 * PX, ONE))
      vel_offset_magnitude ==
        RoundDiv((RoundDiv(Length(victim.velocity) * 3, 10) + 80) * PhaseVelBonus(phase), ONE)
      new_vel == VAdd(victim.velocity,
                      VScale(offset_dir,
                             RoundDiv(vel_offset_magnitude * draw.child_vel[k], ONE), ONE))
      tint_factor == SPLIT_TINT_FACTOR_E3 + PhaseColorVariance(phase)
      tinted_color == lerp_color(victim.current_color, other.current_color,
                                 RoundDiv(tint_factor * draw.child_tint[k], ONE))
  IN [position |-> new_pos, velocity |-> new_vel, color |-> tinted_color]

\* ------------------------------------------------------------- spawning

\* (cos, sin) of an angle in degrees, in thousandths, and the point at a
\* distance dist from the centre in that direction.
UnitVec(deg) == Vec(SinDeg(deg + 90), SinDeg(deg))
PolarPos(angle, dist) == VScale(UnitVec(angle), dist, ONE)

\* Color.hsva[1] and Color.hsva[2] of an RGB colour, in thousandths.
SatOf(c) ==
  LET maxv == Max(c.r, Max(c.g, c.b))
      minv == Min(c.r, Min(c.g, c.b))
  IN IF maxv = 0 THEN 0 ELSE RoundDiv((maxv - minv) * ONE, maxv)
ValOf(c) == RoundDiv(Max(c.r, Max(c.g, c.b)) * ONE, 255)

\* utilities.random_bright_color: COLOR_HARMONY_CHANCE is 0, so the hue is
\* always drawn from the full spectrum; c holds the drawn h, s and v.
random_bright_color(c) == HsvToRgb(c.h, c.s, c.v)

\* utilities.generate_analogous_color(base_color, angle_offset), with the
\* drawn direction; the offset in hundredths of a degree.
generate_analogous_color(base_color, angle_offset, direction) ==
  HsvToRgb((HueOf(base_color) + direction * angle_offset) % 36000,
           SatOf(base_color), ValOf(base_color))

\* One iteration of the first loop of create_initial_balls, with the draws d.
InitialBall(gs, d) ==
  AppendBall(gs, PolarPos(d.angle, RoundDiv(CONTAINER_RADIUS * d.dist, ONE)),
             VScale(UnitVec(d.vel_angle), d.vel_mag, ONE),
             d.radius, random_bright_color(d.color), d.osc, "initial")

\* The spacebar branch of Game._handle_events, with the draws d.
SpaceBall(gs, d) ==
  AppendBall(gs, PolarPos(d.angle, RoundDiv(CONTAINER_RADIUS * d.dist, ONE)),
             d.vel, d.radius, random_bright_color(d.color), d.osc, "space")

\* The mouse branch of Game._handle_events: event.pos is in screen
\* coordinates, in pixels.
MouseBall(gs, d) ==
  AppendBall(gs, Vec((d.pos.x - SCREEN_WIDTH \div 2) * PX, (d.pos.y - SCREEN_HEIGHT \div 2) * PX),
             d.vel, d.radius, random_bright_color(d.color), d.osc, "mouse")

\* The radius range of spawn_fresh_ball in a phase.
FreshRadiusLow(phase) ==
  IF phase \in {"CALM", "BUILD"} THEN RoundDiv(MIN_RADIUS * 15, 10) ELSE MIN_RADIUS * 2
FreshRadiusHigh(phase) ==
  CASE phase = "CALM" -> RoundDiv(MAX_RADIUS * 6, 10)
    [] phase = "BUILD" -> RoundDiv(MAX_RADIUS * 7, 10)
    [] phase = "CHAOS" -> RoundDiv(MAX_RADIUS * 8, 10)
    [] OTHER -> RoundDiv(MAX_RADIUS * 9, 10)

\* physics.spawn_fresh_ball at time t, with the draws d: dist and radius
\* are the drawn fractions of their ranges, in thousandths.
spawn_fresh_ball(gs, t, d) ==
  LET phase == gs.current_phase
      early == phase \in {"CALM", "BUILD"}
      dist_factor == IF early THEN 800 + RoundDiv(150 * d.dist, ONE)
                     ELSE 300 + RoundDiv(600 * d.dist, ONE)
      pos == PolarPos(d.angle, RoundDiv(CONTAINER_RADIUS * dist_factor, ONE))
      inward_dir == Normalize(VNeg(pos))
      vel_dir == VAdd(VScale(inward_dir, 8, 10),
                      VScale(Tangent(inward_dir), 2 * d.sign, 10))
      vel == IF early
             THEN VScale(Normalize(vel_dir), 200 + RoundDiv(200 * d.vel_mag, ONE), ONE)
             ELSE VScale(UnitVec(d.vel_angle), 400 + RoundDiv(300 * d.vel_mag, ONE), ONE)
      radius == FreshRadiusLow(phase)
                + RoundDiv((FreshRadiusHigh(phase) - FreshRadiusLow(phase)) * d.radius, ONE)
      color == IF ~early /\ Len(gs.balls) > 0 /\ d.analogous
               THEN generate_analogous_color(
                      gs.balls[1 + (d.reference % Len(gs.balls))].current_color,
                      d.offset, d.direction)
               ELSE random_bright_color(d.color)
      made == AppendBall(gs, pos, vel, radius, color, d.osc, "fresh")
  IN [made EXCEPT !.particles = spawn_particles(gs.particles, t, 15, ONE, d.lifespan),
                  !.effects = Append(gs.effects, Effect(t, 300))]

\* physics.update_screen_shake(dt), with the drawn offset.
update_screen_shake(gs, dt, offset) ==
  IF gs.screen_shake_timer > 0
  THEN IF gs.screen_shake_timer - dt > 0
       THEN [gs EXCEPT !.screen_shake_timer = gs.screen_shake_timer - dt,
                       !.current_screen_offset = offset]
       ELSE [gs EXCEPT !.screen_shake_timer = 0, !.current_screen_offset = ZeroVec]
  ELSE [gs EXCEPT !.current_screen_offset = ZeroVec]

\* list.sort(key=lambda b: b.radius): a stable sort, by insertion.
RECURSIVE InsertByRadius(_, _)
InsertByRadius(sorted, b) ==
  IF sorted = <<>> THEN <<b>>
  ELSE IF sorted[Len(sorted)].radius <= b.radius THEN Append(sorted, b)
  ELSE Append(InsertByRadius(SubSeq(sorted, 1, Len(sorted) - 1), b), sorted[Len(sorted)])
\* A variant of SortByRadius that leaves the list in its order.
Unsorted(balls) == balls

RECURSIVE SortByRadius(_)
SortByRadius(balls) ==
  IF balls = <<>> THEN <<>>
  ELSE InsertByRadius(SortByRadius(SubSeq(balls, 1, Len(balls) - 1)), balls[Len(balls)])

\* The cap of update_game_objects: the balls evicted and the balls kept.
CapEvicted(balls) ==
  IF Len(balls) > MAX_BALL_COUNT
  THEN SubSeq(SortByRadius(balls), 1, Len(balls) - MAX_BALL_COUNT)
  ELSE <<>>
\* A variant of CapKept that evicts nothing.
CapKeptAll(balls) == balls

CapKept(balls) ==
  IF Len(balls) > MAX_BALL_COUNT
  THEN SubSeq(SortByRadius(balls), Len(balls) - MAX_BALL_COUNT + 1, Len(balls))
  ELSE balls

\* ------------------------------- handle_ball_collisions: one pair (i, j)

\* The record kept of an overlapping pair for the properties: the two
\* balls after the collision response (after the overlap correction alone
\* for a pair that is not approaching, kind "apart"), the normal, the
\* impact, the phase, whether the split roll succeeded, and the ids the
\* pair consumed and created.
PairEvent(kind, a, b, normal, impact_force, phase, roll, consumed, created) ==
  [kind |-> kind, a |-> a, b |-> b, normal |-> normal, impact_force |-> impact_force,
   phase |-> phase, roll |-> roll, consumed |-> consumed, created |-> created]

\* The merge branch for the pair a, b (after the collision response), at
\* time t: what it adds to the call's results.  R is the result so far.
MergePair(R, a, b, normal, impact_force, total_mass, avg_color, t, draw) ==
  LET new_radius == MergedRadius(a.radius, b.radius, impact_force)
      new_pos == MergedPosition(a.position, a.mass, b.position, b.mass, total_mass)
      new_vel == MergedVector(a.velocity, a.mass, b.velocity, b.mass, total_mass)
      merged_ball == Ball(R.gs, new_pos, new_vel, new_radius, avg_color, draw.osc[1], "merge")
      shaken == trigger_screen_shake(R.gs, RoundDiv(SHAKE_DURATION * 12, 10))
  IN [gs |-> [shaken EXCEPT
                !.next_ball_id = R.gs.next_ball_id + 1,
                !.effects = Append(R.gs.effects, Effect(t, RoundDiv(FLASH_DURATION * 15, 10))),
                !.particles = spawn_particles(R.gs.particles, t, PARTICLE_COUNT_SPLIT_MERGE,
                                              1500, draw.lifespan)],
      add |-> Append(R.add, merged_ball),
      rm |-> R.rm \cup {a.id, b.id},
      processed |-> R.processed \cup {PairId(a.id, b.id)},
      sounds |-> R.sounds + 1,
      events |-> Append(R.events, PairEvent("merge", a, b, normal, impact_force,
                                            R.gs.current_phase, FALSE, {a.id, b.id},
                                            {merged_ball.id}))]

\* The split branch for the pair a, b: nothing happens unless the roll
\* succeeds, a victim is eligible and the children are not too small.
SplitPair(R, a, b, normal, impact_force, split_chance, phase, t, draw) ==
  LET effective_split_chance == RoundDiv(split_chance * (500 + RoundDiv(impact_force, 2)), ONE)
      who == SplitVictim(a, b, draw)
      victim == IF who = "a" THEN a ELSE b
      other == IF who = "a" THEN b ELSE a
      new_radius == SplitRadius(victim.radius, SplitMassLoss(phase, impact_force))
      c1 == SplitChild(victim, other, normal, new_radius, phase, draw, 1)
      c2 == SplitChild(victim, other, normal, new_radius, phase, draw, 2)
      gs1 == [R.gs EXCEPT !.next_ball_id = R.gs.next_ball_id + 1]
      child1 == Ball(R.gs, c1.position, c1.velocity, new_radius, c1.color, draw.osc[1], "split")
      child2 == Ball(gs1, c2.position, c2.velocity, new_radius, c2.color, draw.osc[2], "split")
      shaken == trigger_screen_shake(R.gs, SHAKE_DURATION)
  IN IF draw.split_roll < effective_split_chance /\ who /= "none" /\ new_radius >= MIN_RADIUS
     THEN [gs |-> [shaken EXCEPT
                     !.next_ball_id = R.gs.next_ball_id + 2,
                     !.effects = Append(R.gs.effects, Effect(t, RoundDiv(FLASH_DURATION * 12, 10))),
                     !.particles = spawn_particles(R.gs.particles, t, PARTICLE_COUNT_SPLIT_MERGE,
                                                   ONE, draw.lifespan)],
           add |-> R.add \o <<child1, child2>>,
           rm |-> R.rm \cup {victim.id},
           processed |-> R.processed \cup {PairId(a.id, b.id)},
           sounds |-> R.sounds + 1,
           events |-> Append(R.events, PairEvent("split", a, b, normal, impact_force, phase,
                                                 TRUE, {victim.id}, {child1.id, child2.id}))]
     ELSE [R EXCEPT !.events = Append(R.events,
                                      PairEvent("bounce", a, b, normal, impact_force, phase,
                                                draw.split_roll < effective_split_chance,
                                                {}, {}))]

\* The effects of an approaching pair (lines 132-166): flash, particles,
\* sound and shake, scaled by the impact.
CollisionEffects(gs, impact_force, t, draw) ==
  LET flash_duration == RoundDiv(FLASH_DURATION * (600 + RoundDiv(400 * impact_force, ONE)), ONE)
      particle_count == (PARTICLE_COUNT_COLLISION * (500 + RoundDiv(impact_force, 2))) \div ONE
      shaken == trigger_screen_shake(
                  gs, RoundDiv(SHAKE_DURATION * (300 + RoundDiv(300 * impact_force, ONE)), ONE))
  IN [shaken EXCEPT
        !.effects = Append(gs.effects, Effect(t, flash_duration)),
        !.particles = spawn_particles(gs.particles, t, particle_count, ONE, draw.lifespan)]

\* Whether the inner loop skips the pair at indices i < j (line 44), and
\* whether the pair passes the overlap test (line 55).
PairSkipped(balls, i, j, rm, processed) ==
  balls[j].id \in rm \/ PairId(balls[i].id, balls[j].id) \in processed
PairOverlaps(balls, i, j) ==
  LET dist_sq == LengthSquared(VSub(balls[i].position, balls[j].position))
      min_dist == balls[i].radius + balls[j].radius
  IN dist_sq < min_dist * min_dist /\ dist_sq > 0

\* The result of the call so far: the game state, the three collections,
\* the number of sounds requested and the structural events.
PairResult(gs, L) ==
  [gs |-> gs, add |-> L.balls_to_add, rm |-> L.balls_to_remove,
   processed |-> L.collision_pairs_processed, sounds |-> 0, events |-> <<>>]

\* Lines 118-293 for an approaching pair: hit holds the two balls after
\* the collision response; total_mass is the sum of the masses read at
\* line 61, before the shrink.
PairHit(gs, L, i, j, t, draw, normal, total_mass, impact_force, hit) ==
  LET R1 == [PairResult(gs, L) EXCEPT
               !.gs = CollisionEffects([gs EXCEPT !.balls[i] = hit[1], !.balls[j] = hit[2]],
                                       impact_force, t, draw),
               !.sounds = 1]
  IN IF ColorCloser(hit[1].current_color, hit[2].current_color, L.P.current_merge_threshold)
     THEN MergePair(R1, hit[1], hit[2], normal, impact_force, total_mass,
                    lerp_color(hit[1].current_color, hit[2].current_color, 500), t, draw)
     ELSE SplitPair(R1, hit[1], hit[2], normal, impact_force, L.P.current_split_chance,
                    gs.current_phase, t, draw)

\* A variant of PairMoved without the test of line 75: every overlapping
\* pair gets the collision response.
PairMovedAlwaysHit(gs, L, i, j, t, draw, normal, moved, vel_along_normal) ==
  PairHit(gs, L, i, j, t, draw, normal, gs.balls[i].mass + gs.balls[j].mass,
          ImpactForce(vel_along_normal),
          CollisionResponse(moved[1], moved[2], normal, vel_along_normal,
                            ImpactForce(vel_along_normal), L.P, L.dt,
                            gs.current_phase, draw))

\* Lines 74-293 for an overlapping pair after the overlap is resolved:
\* moved holds the two balls at their corrected positions.
PairMoved(gs, L, i, j, t, draw, normal, moved, vel_along_normal) ==
  IF ~(vel_along_normal < 0)
  THEN [PairResult(gs, L) EXCEPT
          !.gs.balls[i] = moved[1], !.gs.balls[j] = moved[2],
          !.events = <<PairEvent("apart", moved[1], moved[2], normal, 0,
                                 gs.current_phase, FALSE, {}, {})>>]
  ELSE PairHit(gs, L, i, j, t, draw, normal, gs.balls[i].mass + gs.balls[j].mass,
               ImpactForce(vel_along_normal),
               CollisionResponse(moved[1], moved[2], normal, vel_along_normal,
                                 ImpactForce(vel_along_normal), L.P, L.dt,
                                 gs.current_phase, draw))

\* Lines 57-293 for an overlapping pair at distance dist along normal.
PairAlong(gs, L, i, j, t, draw, normal, moved) ==
  PairMoved(gs, L, i, j, t, draw, normal, moved,
            RoundDiv(VDot(VSub(moved[1].velocity, moved[2].velocity), normal), ONE))
PairAt(gs, L, i, j, t, draw, normal, overlap) ==
  PairAlong(gs, L, i, j, t, draw, normal,
            ResolveOverlap(gs.balls[i], gs.balls[j], normal, overlap))

\* The distance of the pair at indices i, j.
PairDist(balls, i, j) == Length(VSub(balls[i].position, balls[j].position))
\* normal = vec_dist / dist, a unit vector in thousandths.  For centres
\* closer than 6 px the length is taken in hundredths of a unit, since a
\* length rounded to the unit is then too coarse a divisor.
PairNormal(balls, i, j) ==
  LET vec_dist == VSub(balls[i].position, balls[j].position)
  IN IF Abs(vec_dist.x) < 6 * PX /\ Abs(vec_dist.y) < 6 * PX
     THEN VScale(vec_dist, 100 * ONE, Length(VScale(vec_dist, 100, 1)))
     ELSE VScale(vec_dist, ONE, Length(vec_dist))

\* The body of the inner loop for the pair at indices i < j (lines 43-293)
\* at time t.  L holds the locals of the call: dt, the parameters P read at
\* its start, balls_to_add, balls_to_remove, collision_pairs_processed.
\* The result: the game state, the three collections, the number of sounds
\* requested and the structural events of the pair.
PairStep(gs, L, i, j, t, draw) ==
  IF PairSkipped(gs.balls, i, j, L.balls_to_remove, L.collision_pairs_processed)
  THEN PairResult(gs, L)
  ELSE IF ~PairOverlaps(gs.balls, i, j)
  THEN PairResult(gs, L)
  ELSE PairAt(gs, L, i, j, t, draw,
              PairNormal(gs.balls, i, j),
              (gs.balls[i].radius + gs.balls[j].radius) - PairDist(gs.balls, i, j))

\* The loops of handle_ball_collisions run on from (i, j) to the next pair
\* that is neither skipped nor fails the overlap test (the other pairs
\* change nothing).  j = 0 stands for the head of the outer iteration i,
\* where a ball in balls_to_remove is skipped (line 39); within the inner
\* loop of i only ball j is tested (line 44).  <<0, 0>> when the loops are
\* over.
PairsFrom(i, j, balls, rm, processed) ==
  {p \in (1..Len(balls)) \X (1..Len(balls)) :
     /\ p[1] < p[2]
     /\ \/ p[1] = i /\ j > 0 /\ p[2] >= j
        \/ (p[1] > i \/ (p[1] = i /\ j = 0)) /\ balls[p[1]].id \notin rm
     /\ ~PairSkipped(balls, p[1], p[2], rm, processed)
     /\ PairOverlaps(balls, p[1], p[2])}
FirstPair(pairs) ==
  IF pairs = {} THEN <<0, 0>>
  ELSE CHOOSE p \in pairs :
         \A q \in pairs : p[1] < q[1] \/ (p[1] = q[1] /\ p[2] <= q[2])
SeekPair(i, j, balls, rm, processed) == FirstPair(PairsFrom(i, j, balls, rm, processed))

\* ---------------------------------------------------------------- bounds

\* Main-loop iterations explored; event batches the user sends; the first
\* main-loop iterations, in which every input and draw is free: after them
\* the user sends nothing before the ending, every frame is a long one and
\* the phase-spawn roll fails.
MaxFrames == 6
MaxInputs == 1
MaxFreeFrames == 2

\* ----------------------------------------------------------------- draws

Osc(p, r, d) == [pulse_offset |-> p, color_shift_rate |-> r, color_shift_direction |-> d]
Hsv(h, s, v) == [h |-> h, s |-> s, v |-> v]

\* clock.tick(FPS), in ms: a short frame or a hitch; the frame after the
\* free ones may also be a ten-second hitch, which need not cross a phase
\* boundary.
FrameTimes(intro_phase) ==
  IF intro_phase THEN {2500, 13000}
  ELSE IF frames <= MaxFreeFrames THEN {50, 18000}
  ELSE IF frames = MaxFreeFrames + 1 THEN {10000, 18000, 40000} ELSE {18000, 40000}
EndingFrameTimes == {1500, 3000}

\* The outcomes of random.random() < 0.01 in the phase spawn.
SpawnRolls == IF frames <= MaxFreeFrames THEN BOOLEAN ELSE {FALSE}

\* The draws of one Ball.update call.
UpdateDraws ==
  {[normal |-> Vec(ONE, 0), tangent |-> 0, lifespan |-> 1000],
   [normal |-> Vec(0, ONE), tangent |-> -75, lifespan |-> 700]}

\* The draws of one colliding pair: elasticity is the drawn fraction of the
\* variance, the rolls are random.random() in thousandths, child_vel and
\* child_tint the uniform factors of the two split children, lifespan the
\* uniform factor of the particles.
PairDraws ==
  {[elasticity |-> 0, spin_roll |-> 999, spin_a |-> 1, spin_b |-> 1, split_roll |-> 999,
    tie |-> "a", perp |-> 1, child_vel |-> <<1000, 1000>>, child_tint |-> <<1000, 1000>>,
    osc |-> <<Osc(0, 500, 1), Osc(90, 500, 1)>>, lifespan |-> 1000],
   [elasticity |-> -1000, spin_roll |-> 0, spin_a |-> 1, spin_b |-> -1, split_roll |-> 0,
    tie |-> "b", perp |-> -1, child_vel |-> <<900, 1100>>, child_tint |-> <<800, 1200>>,
    osc |-> <<Osc(180, 350, -1), Osc(270, 650, 1)>>, lifespan |-> 1300]}

\* The draws of create_initial_balls: one record per ball.
InitialDraw(angle, dist, vel_angle, vel_mag, radius, hue) ==
  [angle |-> angle, dist |-> dist, vel_angle |-> vel_angle, vel_mag |-> vel_mag,
   radius |-> radius, color |-> Hsv(hue, ONE, ONE), osc |-> Osc(0, 500, 1)]
InitialBatches ==
  {<<InitialDraw(0, 500, 90, 350, 15 * PX, 0),
     InitialDraw(120, 500, 210, 400, 20 * PX, 12000),
     InitialDraw(240, 500, 330, 500, 32 * PX, 24000)>>,
   <<InitialDraw(0, 300, 0, 350, 32 * PX, 0),
     InitialDraw(0, 450, 180, 350, 32 * PX, 1700),
     InitialDraw(0, 200, 0, 500, 32 * PX, 34300)>>,
   <<InitialDraw(0, 450, 0, 350, 788, 0),
     InitialDraw(0, 600, 180, 350, 15 * PX, 12000),
     InitialDraw(23, 313, 335, 500, 15 * PX, 24000)>>,
   <<InitialDraw(0, 500, 90, 350, 15 * PX, 6000),
     InitialDraw(120, 500, 210, 400, 20 * PX, 6500),
     InitialDraw(240, 500, 330, 500, 32 * PX, 24000)>>}

\* The colours random_bright_color(False) gives the repulsion loop.
RepelColors == {Hsv(6000, ONE, ONE), Hsv(6200, ONE, ONE), Hsv(18000, 900, 900)}

\* The draws of spawn_fresh_ball, one record per ball of a batch.
FreshDraw(angle, dist, vel_angle, vel_mag, radius, hue, analogous) ==
  [angle |-> angle, dist |-> dist, sign |-> 1, vel_angle |-> vel_angle, vel_mag |-> vel_mag,
   radius |-> radius, color |-> Hsv(hue, 900, 900), analogous |-> analogous,
   reference |-> 0, offset |-> 2500, direction |-> 1, osc |-> Osc(45, 500, -1),
   lifespan |-> 700]
FreshBatches ==
  {<<FreshDraw(45, 500, 225, 500, 0, 3000, FALSE), FreshDraw(135, 500, 315, 500, 500, 9000, TRUE),
     FreshDraw(225, 500, 45, 500, 1000, 15000, FALSE), FreshDraw(315, 500, 135, 500, 500, 21000, TRUE)>>}

\* random.uniform(-SHAKE_INTENSITY, SHAKE_INTENSITY) twice, in pixels.
ShakeOffsets == {Vec(-SHAKE_INTENSITY, SHAKE_INTENSITY)}

\* The events pygame.event.get() returns in one frame.  An event carries
\* the draws its handler makes: angle and dist for the spacebar, pos (the
\* click, in screen pixels) for the mouse, then velocity, radius and colour.
EventDraw(angle, dist, pos, vel, radius, hue) ==
  [angle |-> angle, dist |-> dist, pos |-> pos, vel |-> vel, radius |-> radius,
   color |-> Hsv(hue, ONE, ONE), osc |-> Osc(0, 500, 1)]
NoDraw == EventDraw(0, 0, ZeroVec, ZeroVec, 0, 0)
Quit == [type |-> "QUIT", key |-> "", draw |-> NoDraw]
KeyDown(key, draw) == [type |-> "KEYDOWN", key |-> key, draw |-> draw]
MouseDown(draw) == [type |-> "MOUSEBUTTONDOWN", key |-> "", draw |-> draw]
\* Thirteen presses of the spacebar in one frame, the balls on a ring.
Burst ==
  [n \in 1..13 |->
     KeyDown("SPACE", EventDraw(n * 27, 900, ZeroVec, ZeroVec, (20 + (n % 5) * 2) * PX, n * 2700))]
QuitQueues == {<<Quit>>, <<KeyDown("ESCAPE", NoDraw)>>}
SpawnQueues ==
  {Burst,
   <<KeyDown("SPACE", EventDraw(0, 900, ZeroVec, Vec(500, 0), 28 * PX, 0)),
     KeyDown("SPACE", EventDraw(0, 800, ZeroVec, ZeroVec, 28 * PX, 18000))>>,
   <<MouseDown(EventDraw(0, 0, Vec(450, 450), Vec(150, -150), 30 * PX, 30000))>>}
\* A click three pixels to the left or to the right of the centre of a
\* ball that is marked for removal or below MIN_RADIUS: the new ball lies
\* on that ball.
ClickQueues ==
  {<<MouseDown(EventDraw(0, 0,
                         Vec(SCREEN_WIDTH \div 2 + RoundDiv(game_state.balls[k].position.x, PX) + d,
                             SCREEN_HEIGHT \div 2 + RoundDiv(game_state.balls[k].position.y, PX)),
                         ZeroVec, 30 * PX, 30000))>> :
     <<k, d>> \in {p \in (DOMAIN game_state.balls) \X {-3, 3} :
                     \/ game_state.balls[p[1]].should_remove
                     \/ game_state.balls[p[1]].radius < MIN_RADIUS}}
\* The batches a frame of the main loop may get: none, or, while the user
\* has sent fewer than MaxInputs, a click on a ball about to be removed
\* and, in the first MaxFreeFrames iterations, a quit or a spawn request;
\* and the batches a frame of the ending loop may get.
EventQueues ==
  {<<>>} \cup (IF inputs < MaxInputs /\ frames < MaxFreeFrames
               THEN QuitQueues \cup SpawnQueues ELSE {})
         \cup (IF inputs < MaxInputs /\ ~game_state.intro_phase THEN ClickQueues ELSE {})
EndingQueues == {<<>>} \cup (IF inputs < MaxInputs THEN QuitQueues ELSE {})

\* ------------------------------------------------------------------ Init

\* The locals of a frame before it starts.
NoLocals ==
  [dt |-> 0, update_dt |-> 0, elapsed_time |-> 0, intro_progress |-> 0,
   k |-> 0, i |-> 0, j |-> 0,
   balls_to_add |-> <<>>, balls_to_remove |-> {}, collision_pairs_processed |-> {},
   balls_to_remove_small |-> {}, new_effects |-> <<>>,
   P |-> InitialParameters, ending_start |-> 0,
   count_before_cap |-> 0, evicted |-> <<>>]

\* The state when Game.run is entered: GameState(), then Game.__init__
\* (reset and intro_start_time = time.time()).
Init ==
  /\ game_state = [reset(NewGameState, T0) EXCEPT !.intro_start_time = T0]
  /\ now = T0
  /\ sounds = 0
  /\ pc = "loop"
  /\ loc = NoLocals
  /\ frames = 0
  /\ inputs = 0
  /\ log = <<>>

\* ------------------------------------------------- Game._handle_events

\* The handling of one event.
HandleEvent(gs, event) ==
  LET quit == event.type = "QUIT" \/ (event.type = "KEYDOWN" /\ event.key = "ESCAPE")
      g1 == IF quit THEN [gs EXCEPT !.running = FALSE] ELSE gs
  IN IF event.type = "KEYDOWN" /\ event.key = "SPACE" /\ ~g1.intro_phase
     THEN SpaceBall(g1, event.draw)
     ELSE IF event.type = "MOUSEBUTTONDOWN" /\ ~g1.intro_phase
     THEN MouseBall(g1, event.draw)
     ELSE g1
RECURSIVE HandleEventQueue(_, _)
HandleEventQueue(gs, queue) ==
  IF queue = <<>> THEN gs
  ELSE HandleEventQueue(HandleEvent(gs, Head(queue)), Tail(queue))

\* The head of the main loop, while game_state.running: the events of the
\* frame are handled.
HandleEvents ==
  /\ pc = "loop"
  /\ game_state.running
  /\ frames < MaxFrames
  /\ \E queue \in EventQueues :
       /\ game_state' = HandleEventQueue(game_state, queue)
       /\ inputs' = IF queue = <<>> THEN inputs ELSE inputs + 1
  /\ pc' = "tick"
  /\ frames' = frames + 1
  /\ UNCHANGED <<now, sounds, loc, log>>

\* The main loop ends: Game._cleanup.
Cleanup ==
  /\ pc = "loop"
  /\ ~game_state.running
  /\ pc' = "stopped"
  /\ UNCHANGED <<game_state, now, sounds, loc, frames, inputs, log>>

\* run_game() once more in the same process: Game.__init__ resets the
\* game state, which leaves running as it is.
NewGame ==
  /\ pc = "stopped"
  /\ game_state' = [reset(game_state, now) EXCEPT !.intro_start_time = now]
  /\ pc' = "loop"
  /\ loc' = NoLocals
  /\ log' = <<>>
  /\ UNCHANGED <<now, sounds, frames, inputs>>

\* dt = clock.tick(FPS) / 1000, capped; current_time = time.time(); the
\* dispatch on intro_phase.
ClockTick ==
  /\ pc = "tick"
  /\ \E frame_time \in FrameTimes(game_state.intro_phase) :
       /\ now' = now + frame_time
       /\ loc' = [loc EXCEPT !.dt = Min(frame_time, DT_CAP)]
  /\ pc' = IF game_state.intro_phase THEN "intro" ELSE "game"
  /\ UNCHANGED <<game_state, sounds, frames, inputs, log>>

\* ---------------------------------------------- Game._run_intro_phase

\* current_time - intro_start_time, and intro_progress in thousandths.
IntroElapsed == now - game_state.intro_start_time
IntroProgress == RoundDiv(IntroElapsed * ONE, INTRO_DURATION)

\* The head of _run_intro_phase: whether the physics lead-in runs, and
\* with which reduced dt.
RunIntroPhase ==
  /\ pc = "intro"
  /\ LET lead_in == /\ IntroElapsed * ONE > INTRO_DURATION * (ONE - INTRO_FADE_OVERLAP_E3)
                    /\ Len(game_state.balls) > 0
         transition_factor ==
           RoundDiv((IntroProgress - (ONE - INTRO_FADE_OVERLAP_E3)) * ONE, INTRO_FADE_OVERLAP_E3)
     IN /\ loc' = [loc EXCEPT !.intro_progress = IntroProgress,
                              !.update_dt = IF lead_in
                                            THEN RoundDiv(loc.dt * transition_factor, ONE)
                                            ELSE 0,
                              !.k = 1]
        /\ pc' = IF lead_in THEN "lead_in" ELSE "intro_check"
  /\ UNCHANGED <<game_state, now, sounds, frames, inputs, log>>

\* One iteration of the lead-in loop: ball.update(reduced_dt).
IntroUpdateBall ==
  /\ pc = "lead_in"
  /\ \E draw \in UpdateDraws :
       LET upd == BallUpdate(game_state.balls[loc.k], loc.update_dt,
                             game_state.current_phase, now, draw)
       IN /\ game_state' = [game_state EXCEPT !.balls[loc.k] = upd.ball]
          /\ sounds' = sounds + upd.sounds
  /\ loc' = [loc EXCEPT !.k = loc.k + 1]
  /\ pc' = IF loc.k = Len(game_state.balls) THEN "intro_check" ELSE "lead_in"
  /\ UNCHANGED <<now, frames, inputs, log>>

\* An end of _run_intro_phase that creates the initial balls without
\* looking at len(game_state.balls).
IntroCheckCreatesAgain ==
  /\ pc = "intro_check"
  /\ IF IntroElapsed >= INTRO_DURATION
     THEN /\ game_state' = [game_state EXCEPT !.intro_phase = FALSE, !.game_start_time = now]
          /\ sounds' = sounds + 1
          /\ pc' = "create"
     ELSE /\ \E add \in BOOLEAN :
               LET particles == IF add THEN Append(game_state.particles, Particle(now, 1000, 1))
                                ELSE game_state.particles
               IN game_state' =
                    [game_state EXCEPT
                       !.particles = SelectSeq(particles, LAMBDA q : ParticleAlive(q, now))]
          /\ sounds' = sounds
          /\ pc' = IF IntroElapsed * 10 > INTRO_DURATION * 8 THEN "create" ELSE "loop"
  /\ loc' = NoLocals
  /\ UNCHANGED <<now, frames, inputs, log>>

\* The end of _run_intro_phase: the intro is over (the start sound, the
\* fallback creation of the initial balls), or GameRenderer.render_intro
\* runs: it may add a particle, drops the dead ones, and creates the
\* initial balls early.
IntroCheck ==
  /\ pc = "intro_check"
  /\ IF IntroElapsed >= INTRO_DURATION
     THEN /\ game_state' = [game_state EXCEPT !.intro_phase = FALSE, !.game_start_time = now]
          /\ sounds' = sounds + 1
          /\ pc' = IF Len(game_state.balls) = 0 THEN "create" ELSE "loop"
     ELSE /\ \E add \in BOOLEAN :
               LET particles == IF add THEN Append(game_state.particles, Particle(now, 1000, 1))
                                ELSE game_state.particles
               IN game_state' =
                    [game_state EXCEPT
                       !.particles = SelectSeq(particles, LAMBDA q : ParticleAlive(q, now))]
          /\ sounds' = sounds
          /\ pc' = IF IntroElapsed * 10 > INTRO_DURATION * 8 /\ Len(game_state.balls) = 0
                   THEN "create" ELSE "loop"
  /\ loc' = NoLocals
  /\ UNCHANGED <<now, frames, inputs, log>>

\* ------------------------------------------------- create_initial_balls

RECURSIVE InitialBalls(_, _)
InitialBalls(gs, draws) ==
  IF draws = <<>> THEN gs ELSE InitialBalls(InitialBall(gs, Head(draws)), Tail(draws))

\* The first loop of create_initial_balls.
CreateInitialBalls ==
  /\ pc = "create"
  /\ \E batch \in InitialBatches : game_state' = InitialBalls(game_state, batch)
  /\ loc' = [loc EXCEPT !.i = 1, !.j = 2]
  /\ pc' = "repel"
  /\ UNCHANGED <<now, sounds, frames, inputs, log>>

\* The colour-repulsion loops of create_initial_balls, at the pair (i, j):
\* one test of the while condition, and one regeneration of the colour of
\* ball j when the two colours are closer than COLOR_DISTANCE_THRESHOLD.
RepelColorsStep ==
  /\ pc = "repel"
  /\ LET n == Len(game_state.balls)
     IN IF loc.i >= n \/ n <= 1
        THEN /\ pc' = "loop"
             /\ loc' = NoLocals
             /\ game_state' = game_state
        ELSE IF ColorCloser(game_state.balls[loc.i].current_color,
                            game_state.balls[loc.j].current_color, COLOR_DISTANCE_THRESHOLD)
        THEN /\ \E c \in RepelColors :
                  game_state' = [game_state EXCEPT
                                   !.balls[loc.j].current_color = random_bright_color(c),
                                   !.balls[loc.j].hue = HueOf(random_bright_color(c))]
             /\ UNCHANGED <<pc, loc>>
        ELSE /\ loc' = IF loc.j < n THEN [loc EXCEPT !.j = loc.j + 1]
                       ELSE [loc EXCEPT !.i = loc.i + 1, !.j = loc.i + 2]
             /\ UNCHANGED <<pc, game_state>>
  /\ UNCHANGED <<now, sounds, frames, inputs, log>>

\* ----------------------------------------------- Game._run_game_phase

\* The head of _run_game_phase: elapsed_time and update_phase.
RunGamePhase ==
  /\ pc = "game"
  /\ LET elapsed_time == now - game_state.game_start_time
     IN /\ game_state' = update_phase(game_state, elapsed_time, now)
        /\ loc' = [loc EXCEPT !.elapsed_time = elapsed_time]
        /\ pc' = IF PhaseChanges(game_state, elapsed_time) THEN "transition" ELSE "objects"
  /\ UNCHANGED <<now, sounds, frames, inputs, log>>

RECURSIVE SpawnFreshBalls(_, _, _)
SpawnFreshBalls(gs, t, draws) ==
  IF draws = <<>> THEN gs
  ELSE SpawnFreshBalls(spawn_fresh_ball(gs, t, Head(draws)), t, Tail(draws))

\* Game._handle_phase_transition for the phase just entered: the shake,
\* the decorative particles and effects, and the fresh balls.
PhaseTransition(gs, t, draws) ==
  LET phase == gs.current_phase
      duration == CASE phase = "BUILD" -> 500 [] phase = "CHAOS" -> 800
                    [] phase = "FINALE" -> 1200 [] OTHER -> 0
      particles == CASE phase = "BUILD" -> <<Particle(t, 1500, 30)>>
                     [] phase = "CHAOS" -> <<Particle(t, 2000, 50)>>
                     [] phase = "FINALE" -> <<Particle(t, 2500, 80)>>
                     [] OTHER -> <<>>
      effects == CASE phase = "CHAOS" -> <<Effect(t, 600)>>
                   [] phase = "FINALE" -> <<Effect(t, 800), Effect(t, 700)>>
                   [] OTHER -> <<>>
      count == CASE phase = "CHAOS" -> 2 [] phase = "FINALE" -> 4 [] OTHER -> 0
      shaken == IF duration > 0 THEN trigger_screen_shake(gs, duration) ELSE gs
  IN SpawnFreshBalls([shaken EXCEPT !.particles = gs.particles \o particles,
                                    !.effects = gs.effects \o effects],
                     t, SubSeq(draws, 1, count))

HandlePhaseTransition ==
  /\ pc = "transition"
  /\ \E draws \in FreshBatches :
       game_state' = PhaseTransition(game_state, now, draws)
  /\ sounds' = sounds + (IF game_state.current_phase = "CALM" THEN 0 ELSE 1)
  /\ pc' = "objects"
  /\ UNCHANGED <<now, loc, frames, inputs, log>>

\* ------------------------------------------------- update_game_objects

\* The head of update_game_objects: the phase and the adaptive parameters.
UpdateGameObjectsBegin ==
  /\ pc = "objects"
  /\ game_state' = update_adaptive_parameters(
                     update_phase(game_state, loc.elapsed_time, now), now)
  /\ loc' = [loc EXCEPT !.balls_to_remove_small = {}, !.new_effects = <<>>,
                        !.k = 1, !.update_dt = loc.dt]
  /\ pc' = "update"
  /\ UNCHANGED <<now, sounds, frames, inputs, log>>

\* The pop of a ball to remove in update_game_objects (lines 331-352): two
\* flashes, particles and the shake (the sound is counted by the caller).
PopEffects(gs, t, draw) ==
  [trigger_screen_shake(gs, RoundDiv(SHAKE_DURATION * 4, 10)) EXCEPT
     !.effects = gs.effects \o <<Effect(t, POP_FLASH_DURATION),
                                 Effect(t, RoundDiv(POP_FLASH_DURATION * 7, 10))>>,
     !.particles = spawn_particles(gs.particles, t, PARTICLE_COUNT_POP, 1200, draw.lifespan)]

\* Whether the ball loop removes the ball whose update gave upd.
Popped(upd) == ~upd.result \/ upd.ball.should_remove \/ upd.ball.radius < MIN_RADIUS

\* The rest of one iteration of the ball loop, after ball.update(dt) gave
\* upd for the ball at index k.
AfterBallUpdate(upd, draw) ==
  /\ game_state' =
       IF Popped(upd)
       THEN PopEffects([game_state EXCEPT
                          !.balls[loc.k] = [upd.ball EXCEPT !.hit_wall_effect_info = FALSE]],
                       now, draw)
       ELSE [game_state EXCEPT
               !.balls[loc.k] = [upd.ball EXCEPT !.hit_wall_effect_info = FALSE]]
  /\ sounds' = sounds + upd.sounds + (IF Popped(upd) THEN 1 ELSE 0)
  /\ loc' = [loc EXCEPT
               !.k = loc.k + 1,
               !.balls_to_remove_small =
                  IF Popped(upd) THEN loc.balls_to_remove_small \cup {upd.ball.id}
                  ELSE loc.balls_to_remove_small,
               !.new_effects =
                  IF upd.ball.hit_wall_effect_info
                  THEN Append(loc.new_effects, Effect(now, RoundDiv(FLASH_DURATION * 6, 10)))
                  ELSE loc.new_effects]

\* One iteration of the ball loop: the gravity strength, ball.update(dt),
\* the pop of a ball to remove (two flashes, particles, sound, shake) and
\* the wall-hit flash.
UpdateBall ==
  /\ pc = "update"
  /\ loc.k <= Len(game_state.balls)
  /\ \E draw \in UpdateDraws :
       AfterBallUpdate(
         BallUpdate([game_state.balls[loc.k] EXCEPT
                       !.gravity_strength = game_state.parameters.current_gravity_strength],
                    loc.dt, game_state.current_phase, now, draw),
         draw)
  /\ UNCHANGED <<now, pc, frames, inputs, log>>

\* The head of handle_ball_collisions, called on game_state.balls: the
\* phase and the parameters once more, the empty result collections, and
\* the run of the loops to the first pair that does something.
HandleBallCollisionsBegin ==
  /\ pc = "update"
  /\ loc.k > Len(game_state.balls)
  /\ LET gs1 == update_adaptive_parameters(
                  update_phase(game_state, loc.elapsed_time, now), now)
         first == SeekPair(1, 0, gs1.balls, {}, {})
     IN /\ game_state' = gs1
        /\ loc' = [loc EXCEPT !.balls_to_add = <<>>, !.balls_to_remove = {},
                              !.collision_pairs_processed = {}, !.P = gs1.parameters,
                              !.i = first[1], !.j = first[2]]
        /\ pc' = IF first = <<0, 0>> THEN "finish" ELSE "collide"
  /\ log' = <<>>
  /\ UNCHANGED <<now, sounds, frames, inputs>>

\* The rest of one iteration of the inner loop, after the body gave R for
\* the pair (i, j).
AfterPairStep(R) ==
  /\ game_state' = R.gs
  /\ sounds' = sounds + R.sounds
  /\ log' = log \o R.events
  /\ loc' = [loc EXCEPT
               !.balls_to_add = R.add, !.balls_to_remove = R.rm,
               !.collision_pairs_processed = R.processed,
               !.i = SeekPair(loc.i, loc.j + 1, R.gs.balls, R.rm, R.processed)[1],
               !.j = SeekPair(loc.i, loc.j + 1, R.gs.balls, R.rm, R.processed)[2]]
  /\ pc' = IF SeekPair(loc.i, loc.j + 1, R.gs.balls, R.rm, R.processed) = <<0, 0>>
           THEN "finish" ELSE "collide"

\* The iteration of the inner loop of handle_ball_collisions for the pair
\* (i, j), and the run of the loops to the next pair that does something.
CollidePair ==
  /\ pc = "collide"
  /\ \E draw \in PairDraws :
       AfterPairStep(PairStep(game_state, loc, loc.i, loc.j, now, draw))
  /\ UNCHANGED <<now, frames, inputs>>

\* The phase spawn at the end of update_game_objects: in BUILD, CHAOS and
\* FINALE a fresh ball is spawned when the roll (random.random() < 0.01)
\* succeeds and the balls are fewer than 0.3, 0.5, 0.8 of MAX_BALL_COUNT.
PhaseSpawnShare(phase) ==
  CASE phase = "BUILD" -> 3 [] phase = "CHAOS" -> 5 [] phase = "FINALE" -> 8 [] OTHER -> 0
PhaseSpawn(gs, t, roll, draw) ==
  IF roll /\ Len(gs.balls) * 10 < MAX_BALL_COUNT * PhaseSpawnShare(gs.current_phase)
  THEN spawn_fresh_ball(gs, t, draw)
  ELSE gs

\* The rest of update_game_objects after handle_ball_collisions returns:
\* the removals and additions, the particles and effects, the shake, the
\* cap and the phase spawn.  Its collections end with the call; the count
\* that reached the cap and the balls the cap evicted are kept for the
\* properties.
UpdateGameObjectsEnd ==
  /\ pc = "finish"
  /\ \E offset \in ShakeOffsets, roll \in SpawnRolls, draws \in FreshBatches :
       LET balls_to_remove == loc.balls_to_remove_small \cup loc.balls_to_remove
           balls == SelectSeq(game_state.balls, LAMBDA b : b.id \notin balls_to_remove)
                      \o loc.balls_to_add
           gs1 == [game_state EXCEPT
                     !.balls = balls,
                     !.particles = SelectSeq(game_state.particles,
                                             LAMBDA q : ParticleAlive(q, now)),
                     !.effects = SelectSeq(game_state.effects \o loc.new_effects,
                                           LAMBDA e : EffectAlive(e, now))]
           gs2 == update_screen_shake(gs1, loc.dt, offset)
           gs3 == [gs2 EXCEPT !.balls = CapKept(balls)]
       IN /\ game_state' = PhaseSpawn(gs3, now, roll, draws[1])
          /\ loc' = [loc EXCEPT !.count_before_cap = Len(balls),
                                !.evicted = CapEvicted(balls),
                                !.balls_to_add = <<>>, !.balls_to_remove = {},
                                !.collision_pairs_processed = {},
                                !.balls_to_remove_small = {}, !.new_effects = <<>>]
  /\ pc' = "after_update"
  /\ UNCHANGED <<now, sounds, frames, inputs, log>>

\* physics.trigger_finale: FINALE_BALLS_COUNT is 0, so no ball is made.
trigger_finale(gs) ==
  IF gs.finale_triggered THEN gs
  ELSE trigger_screen_shake([gs EXCEPT !.finale_triggered = TRUE], SHAKE_DURATION * 2)

\* The rest of _run_game_phase after update_game_objects returns: the
\* finale trigger, then the ending sequence or render_frame (which changes
\* nothing) and the end of the frame.
RunGamePhaseEnd ==
  /\ pc = "after_update"
  /\ LET finale == loc.elapsed_time >= FINALE_START_TIME /\ ~game_state.finale_triggered
     IN /\ game_state' = IF finale THEN trigger_finale(game_state) ELSE game_state
        /\ sounds' = sounds + (IF finale THEN 1 ELSE 0)
  /\ IF loc.elapsed_time >= MAX_GAME_DURATION
     THEN /\ pc' = "ending"
          /\ loc' = [NoLocals EXCEPT !.ending_start = now]
     ELSE /\ pc' = "loop"
          /\ loc' = NoLocals
  /\ UNCHANGED <<now, frames, inputs, log>>

\* An ending loop that leaves game_state.running as it is when it ends.
EndingFrameKeepsRunning ==
  /\ pc = "ending"
  /\ IF ~game_state.running
     THEN /\ pc' = "loop"
          /\ loc' = NoLocals
          /\ UNCHANGED <<game_state, now, inputs>>
     ELSE \E queue \in EndingQueues, frame_time \in EndingFrameTimes :
            LET quit == \E n \in 1..Len(queue) :
                          \/ queue[n].type = "QUIT"
                          \/ queue[n].type = "KEYDOWN" /\ queue[n].key = "ESCAPE"
                stop == quit \/ now - loc.ending_start >= ENDING_DURATION
            IN /\ inputs' = IF queue = <<>> THEN inputs ELSE inputs + 1
               /\ game_state' = game_state
               /\ now' = now + frame_time
               /\ pc' = IF stop THEN "loop" ELSE "ending"
               /\ loc' = IF stop THEN NoLocals ELSE loc
  /\ UNCHANGED <<sounds, frames, log>>

\* One iteration of the loop of Game._run_ending_sequence (or its end
\* when running is already False): the events, the progress test,
\* render_ending (which changes nothing) and clock.tick.
EndingFrame ==
  /\ pc = "ending"
  /\ IF ~game_state.running
     THEN /\ pc' = "loop"
          /\ loc' = NoLocals
          /\ UNCHANGED <<game_state, now, inputs>>
     ELSE \E queue \in EndingQueues, frame_time \in EndingFrameTimes :
            LET quit == \E n \in 1..Len(queue) :
                          \/ queue[n].type = "QUIT"
                          \/ queue[n].type = "KEYDOWN" /\ queue[n].key = "ESCAPE"
                stop == quit \/ now - loc.ending_start >= ENDING_DURATION
            IN /\ inputs' = IF queue = <<>> THEN inputs ELSE inputs + 1
               /\ game_state' = IF stop THEN [game_state EXCEPT !.running = FALSE]
                                ELSE game_state
               /\ now' = now + frame_time
               /\ pc' = IF stop THEN "loop" ELSE "ending"
               /\ loc' = IF stop THEN NoLocals ELSE loc
  /\ UNCHANGED <<sounds, frames, log>>

\* ------------------------------------------------------- specification

Next ==
  \/ HandleEvents
  \/ Cleanup
  \/ NewGame
  \/ ClockTick
  \/ RunIntroPhase
  \/ IntroUpdateBall
  \/ IntroCheck
  \/ CreateInitialBalls
  \/ RepelColorsStep
  \/ RunGamePhase
  \/ HandlePhaseTransition
  \/ UpdateGameObjectsBegin
  \/ UpdateBall
  \/ HandleBallCollisionsBegin
  \/ CollidePair
  \/ UpdateGameObjectsEnd
  \/ RunGamePhaseEnd
  \/ EndingFrame

Spec == Init /\ [][Next]_vars

\* The program keeps running: it takes a step whenever it can. Nothing is
\* assumed of the random draws or of the user. The steps are in two
\* groups. ControlSteps are the steps of Game.run and of the intro.
\* PhysicsSteps are the steps of update_game_objects and its callees, of
\* the phase transition and of the lead-in loop, one of which can be
\* taken exactly when InPhysics holds; their weak fairness is written out,
\* with InPhysics for ENABLED <<PhysicsSteps>>_vars.
ControlSteps ==
  \/ HandleEvents
  \/ Cleanup
  \/ NewGame
  \/ ClockTick
  \/ RunIntroPhase
  \/ IntroCheck
  \/ CreateInitialBalls
  \/ RepelColorsStep
  \/ RunGamePhase
  \/ RunGamePhaseEnd
  \/ EndingFrame
PhysicsSteps ==
  \/ IntroUpdateBall
  \/ HandlePhaseTransition
  \/ UpdateGameObjectsBegin
  \/ UpdateBall
  \/ HandleBallCollisionsBegin
  \/ CollidePair
  \/ UpdateGameObjectsEnd
InPhysics == pc \in {"lead_in", "transition", "objects", "update", "collide", "finish"}
LiveSpec ==
  /\ Init /\ [][Next]_vars
  /\ WF_vars(ControlSteps)
  /\ <>[]InPhysics => []<><<PhysicsSteps>>_vars

\* ============================================================ properties

\* The balls of game_state.balls, as a set.
Balls == {game_state.balls[k] : k \in DOMAIN game_state.balls}

\* update_game_objects has just returned (the end of a tick).
TickDone == pc = "after_update"

\* The pair the inner loop of handle_ball_collisions is about to process
\* holds a ball whose id is already in balls_to_remove.
PairHoldsRemoved ==
  /\ pc = "collide"
  /\ \/ game_state.balls[loc.i].id \in loc.balls_to_remove
     \/ game_state.balls[loc.j].id \in loc.balls_to_remove

\* ---- C1
\* C1: within one handle_ball_collisions call no ball id is consumed by
\* more than one structural event: no two events of the call (merges,
\* splits) consume the same id.
C1_NoIdConsumedTwice ==
  \A m, n \in DOMAIN log : m /= n => log[m].consumed \cap log[n].consumed = {}

\* ---- C2
\* C2: once a ball's id is in balls_to_remove, a pair visited later in the
\* same call that holds the ball (as index i or j) is skipped: the step of
\* the inner loop on such a pair changes no ball and emits no effect,
\* particle, shake or sound.
C2_RemovedBallSkipped ==
  [][PairHoldsRemoved =>
       /\ game_state'.balls = game_state.balls
       /\ game_state'.effects = game_state.effects
       /\ game_state'.particles = game_state.particles
       /\ game_state'.screen_shake_timer = game_state.screen_shake_timer
       /\ sounds' = sounds]_vars

\* ---- C3
\* C3: after every update_game_objects call, the phase spawn that follows
\* the cap included, game_state.balls holds at most MAX_BALL_COUNT balls.
C3_CountAtMostCap == TickDone => Len(game_state.balls) <= MAX_BALL_COUNT

\* A tick has ended in which more than MAX_BALL_COUNT balls reached the cap.
C3_CapReached == TickDone /\ loc.count_before_cap > MAX_BALL_COUNT

\* ---- C4
\* C4: when the cap evicts, exactly count - MAX_BALL_COUNT balls are
\* removed, the kept balls are the others, and no removed ball is larger
\* than a kept one.
C4_EvictsSmallest ==
  (TickDone /\ loc.count_before_cap > MAX_BALL_COUNT) =>
    /\ Len(loc.evicted) = loc.count_before_cap - MAX_BALL_COUNT
    /\ Len(game_state.balls) = MAX_BALL_COUNT
    /\ \A e \in DOMAIN loc.evicted :
         \A b \in Balls : /\ loc.evicted[e].id /= b.id
                          /\ loc.evicted[e].radius <= b.radius

\* The cap has evicted a ball strictly smaller than a kept one, which was
\* not the last of the list.
C4_EvictedSmaller ==
  /\ TickDone
  /\ Len(loc.evicted) > 0
  /\ \E b \in Balls : /\ loc.evicted[1].radius < b.radius
                      /\ loc.evicted[1].id < b.id

\* ---- C5
\* C5: after every tick every ball of game_state.balls has
\* mass = BASE_DENSITY * radius^2 for its current radius.
C5_MassOfRadius == TickDone => \A b \in Balls : b.mass = MassOf(b.radius)

\* A tick has ended after a collision response (which shrinks both balls),
\* with split children and a ball that hit the wall in the collection.
C5_RadiiChanged ==
  /\ TickDone
  /\ sounds > 1
  /\ \E b \in Balls : b.updated /\ b.origin = "initial"
  /\ \E b \in Balls : b.origin = "split"

\* ---- C6
\* C6: after every tick every ball lies inside the container:
\* distance(position, CENTER) + radius <= CONTAINER_RADIUS, up to an
\* epsilon of a tenth of a pixel (beyond the rounding of the lengths).
C6_InsideContainer ==
  TickDone => \A b \in Balls : Length(b.position) + b.radius <= CONTAINER_RADIUS + PX \div 10

\* ---- C7
\* The ids of the balls of game_state.balls and of the pending balls_to_add.
LiveIds ==
  {game_state.balls[k].id : k \in DOMAIN game_state.balls}
    \cup {loc.balls_to_add[k].id : k \in DOMAIN loc.balls_to_add}

\* C7: between two resets the ids are given in increasing order and never
\* reused: at every moment the balls of game_state.balls and of a pending
\* balls_to_add have pairwise distinct ids, each below next_ball_id; and a
\* step other than a reset never lowers next_ball_id and gives every ball
\* it creates an id at or above the old next_ball_id.
C7_IdsUnique ==
  /\ [](/\ \A k, l \in DOMAIN game_state.balls :
             k /= l => game_state.balls[k].id /= game_state.balls[l].id
        /\ \A k, l \in DOMAIN loc.balls_to_add :
             k /= l => loc.balls_to_add[k].id /= loc.balls_to_add[l].id
        /\ \A k \in DOMAIN game_state.balls, l \in DOMAIN loc.balls_to_add :
             game_state.balls[k].id /= loc.balls_to_add[l].id
        /\ \A id \in LiveIds : id < game_state.next_ball_id)
  /\ [][pc /= "stopped" =>
          /\ game_state'.next_ball_id >= game_state.next_ball_id
          /\ \A id \in LiveIds' \ LiveIds : id >= game_state.next_ball_id]_vars

\* Balls were removed and later ones created: the collection holds a ball
\* made by a merge or split next to pending or older ones, and some id
\* below next_ball_id is no longer live.
C7_IdsRetired ==
  /\ \E b \in Balls : b.origin \in {"merge", "split"}
  /\ \E id \in 0..(game_state.next_ball_id - 1) : id \notin LiveIds
  /\ Cardinality(LiveIds) > 1

\* ---- C8
\* C8: after every update_game_objects call every ball of game_state.balls
\* has radius >= MIN_RADIUS, the balls shrunk by a collision of that call
\* included.
C8_NoneBelowMinRadius == TickDone => \A b \in Balls : b.radius >= MIN_RADIUS

\* ---- C9
\* C9 as stated: after every tick every ball of game_state.balls has
\* radius <= MAX_RADIUS.
C9_AtMostMaxRadius == TickDone => \A b \in Balls : b.radius <= MAX_RADIUS

\* C9, amended: after every tick every ball has radius <= 1.2 * MAX_RADIUS,
\* and a ball above MAX_RADIUS is one produced by a merge that Ball.update
\* has not yet run on; every ball Ball.update has run on is at most
\* MAX_RADIUS.
C9_AtMostMaxRadiusButMerged ==
  TickDone => \A b \in Balls :
                /\ b.radius <= RoundDiv(MAX_RADIUS * 12, 10)
                /\ b.radius > MAX_RADIUS => (b.origin = "merge" /\ ~b.updated)

\* A tick has ended with a merged ball above MAX_RADIUS in the collection.
C9_MergedAboveMax ==
  /\ TickDone
  /\ \E b \in Balls : b.origin = "merge" /\ b.radius > MAX_RADIUS

\* ---- C10
\* The place of a phase in the order CALM < BUILD < CHAOS < FINALE.
PhaseOrder(p) ==
  CASE p = "CALM" -> 0 [] p = "BUILD" -> 1 [] p = "CHAOS" -> 2 [] OTHER -> 3

\* The progress through the current phase at the current time.
Progress == get_phase_progress(game_state, now)

\* C10: the progression measure (the phase in the order CALM < BUILD <
\* CHAOS < FINALE, then get_phase_progress) stays within [0, 1], never
\* decreases over the steps of one run, and is back at its initial value
\* (CALM, 0) after the reset that starts a new run.
C10_ProgressionMonotone ==
  /\ [](0 <= Progress /\ Progress <= ONE)
  /\ [][pc /= "stopped" =>
          \/ PhaseOrder(game_state'.current_phase) > PhaseOrder(game_state.current_phase)
          \/ /\ game_state'.current_phase = game_state.current_phase
             /\ Progress' >= Progress]_vars
  /\ [][pc = "stopped" => (game_state'.current_phase = "CALM" /\ Progress' = 0)]_vars

\* A run that went past CALM has ended and the reset has brought the
\* measure back to (CALM, 0).
C10_ResetAfterProgress ==
  /\ pc = "loop"
  /\ frames >= 4
  /\ game_state.current_phase = "CALM"
  /\ Progress = 0

\* ---- C11
\* C11: the progression measure has fixed endpoints.  At the end of the
\* first tick after the intro (elapsed time at most one capped frame) the
\* phase is CALM, its progress is that of the elapsed time (0, up to the
\* frame) and the tunables are those of that progress; at the end of a
\* tick whose elapsed time is >= MAX_GAME_DURATION the phase is FINALE, the
\* progress is 1 and the tunables have their final values.
C11_FixedEndpoints ==
  /\ (TickDone /\ loc.elapsed_time <= DT_CAP) =>
       /\ game_state.current_phase = "CALM"
       /\ Progress <= RoundDiv(loc.elapsed_time * ONE, PhaseLength("CALM"))
       /\ game_state.parameters =
            AdaptiveParameters("CALM", RoundDiv(loc.elapsed_time * ONE, PhaseLength("CALM")))
  /\ (TickDone /\ loc.elapsed_time >= MAX_GAME_DURATION) =>
       /\ game_state.current_phase = "FINALE"
       /\ Progress = ONE
       /\ game_state.parameters = AdaptiveParameters("FINALE", ONE)

\* ---- C12
\* The events of the current handle_ball_collisions call, as a set, and
\* the balls the call has created so far.
Events == {log[n] : n \in DOMAIN log}
Added == {loc.balls_to_add[k] : k \in DOMAIN loc.balls_to_add}

\* Whether handle_ball_collisions is running or has just returned, its
\* results not yet applied.
InCollisions == pc \in {"collide", "finish"}

\* The radius the merge of radii ra and rb at impact impact_force should
\* give: sqrt((ra^2 + rb^2) * (1 - area_loss)) * MERGE_AREA_FACTOR, with
\* area_loss = 0.02 + 0.05 * impact_force.
MergeAreaRadius(ra, rb, impact_force) ==
  RoundDiv(Sqrt((((ra * ra + rb * rb) \div 10) * (ONE - (20 + RoundDiv(50 * impact_force, ONE))))
                  \div 100)
             * MERGE_AREA_FACTOR_E3, ONE)

\* C12: for every pair merged in a handle_ball_collisions call, both ids
\* are in the removal set and the call has created exactly one ball for
\* the pair, whose radius is the merge-area radius clamped to
\* [MIN_RADIUS, 1.2 * MAX_RADIUS] (up to the rounding of a length unit);
\* after the tick neither id is in game_state.balls.
C12_MergeOutcome ==
  \A e \in Events : e.kind = "merge" =>
    /\ InCollisions =>
         /\ {e.a.id, e.b.id} \subseteq loc.balls_to_remove
         /\ Cardinality(e.created) = 1
         /\ Cardinality({m \in Added : m.id \in e.created}) = 1
         /\ \A m \in Added : m.id \in e.created =>
              /\ m.origin = "merge"
              /\ m.radius >= MIN_RADIUS /\ m.radius <= (MAX_RADIUS * 12) \div 10
              /\ Abs(m.radius -
                     Max(MIN_RADIUS,
                         Min(MergeAreaRadius(e.a.radius, e.b.radius, e.impact_force),
                             (MAX_RADIUS * 12) \div 10))) <= 1
    /\ TickDone => \A b \in Balls : b.id \notin {e.a.id, e.b.id}

\* A call has merged a pair, and a tick has ended after a merge.
C12_Merged ==
  /\ TickDone
  /\ \E e \in Events : e.kind = "merge" /\ \E b \in Balls : b.id \in e.created

\* ---- C13
\* The merged balls of the current call with the pair each came from.
Merges ==
  {<<e, m>> \in Events \X Added : e.kind = "merge" /\ m.id \in e.created}

\* C13: on every merge the momentum of the merged ball (mass * velocity)
\* equals the sum of the momenta the two balls have at the merge, within
\* the rounding of the merged velocity (one px/s at the merged mass) and of
\* the masses.
C13_MergeMomentum ==
  InCollisions =>
    \A p \in Merges :
      LET e == p[1]
          m == p[2]
          tol == m.mass + Length(e.a.velocity) + Length(e.b.velocity)
      IN /\ Abs(m.mass * m.velocity.x
                  - (e.a.mass * e.a.velocity.x + e.b.mass * e.b.velocity.x)) <= tol
         /\ Abs(m.mass * m.velocity.y
                  - (e.a.mass * e.a.velocity.y + e.b.mass * e.b.velocity.y)) <= tol

\* ---- C14
\* C14: on every merge the merged ball is created at the average of the
\* two centres weighted by the masses the balls have at the merge, divided
\* by their sum (weights that sum to 1), within a tenth of a pixel: its
\* centre lies on the segment between the two centres.
C14_MergePosition ==
  InCollisions =>
    \A p \in Merges :
      LET e == p[1]
          m == p[2]
          total == e.a.mass + e.b.mass
      IN /\ Abs(m.position.x
                  - RoundDiv(e.a.position.x * e.a.mass + e.b.position.x * e.b.mass, total))
              <= PX \div 10
         /\ Abs(m.position.y
                  - RoundDiv(e.a.position.y * e.a.mass + e.b.position.y * e.b.mass, total))
              <= PX \div 10

\* ---- C15
\* The splits of the current call: the pair's record, the victim, and the
\* set of the children the call created for it.
Splits ==
  {<<e, v, {c \in Added : c.id \in e.created}>> :
     <<e, v>> \in {p \in Events \X (UNION {{x.a, x.b} : x \in Events}) :
                     p[1].kind = "split" /\ p[2] \in {p[1].a, p[1].b}
                       /\ p[2].id \in p[1].consumed}}

\* C15: every split makes two children, each of area
\* victimArea / (2 * splitMassLoss) (radius^2 * 2 * splitMassLoss =
\* victim radius^2, within the rounding of the radius) and of radius
\* >= MIN_RADIUS, placed on opposite sides of the victim on the axis
\* perpendicular to the collision normal, at distance
\* new_radius * 1.1 + 2 px from it (within the half percent that the unit
\* normal in thousandths allows), so that they do not overlap each other.
C15_SplitChildren ==
  InCollisions =>
    \A s \in Splits :
      LET e == s[1]
          v == s[2]
          children == s[3]
          sml == SplitMassLoss(e.phase, e.impact_force)
      IN /\ Cardinality(children) = 2
         /\ \A c \in children :
              /\ c.radius >= MIN_RADIUS
              /\ Abs((((c.radius * c.radius) \div 10) * 2 * sml) \div 100
                       - v.radius * v.radius) <= 4 * v.radius
              /\ Abs(Length(VSub(c.position, v.position))
                       - (RoundDiv(c.radius * 11, 10) + 2 * PX))
                   <= 2 + (RoundDiv(c.radius * 11, 10) + 2 * PX) \div 200
              /\ Abs(VDot(VSub(c.position, v.position), e.normal)) <= 2 * ONE
         /\ \A c, d \in children : c.id /= d.id =>
              /\ Abs(c.position.x + d.position.x - 2 * v.position.x) <= 2
              /\ Abs(c.position.y + d.position.y - 2 * v.position.y) <= 2
              /\ Length(VSub(c.position, d.position)) >= c.radius + d.radius

\* A call has split a ball and its two children are among the balls to add.
C15_SplitDone ==
  /\ InCollisions
  /\ \E s \in Splits : Cardinality(s[3]) = 2

\* ---- C16
\* The balls of the pair of e that may be the victim of a split: the
\* eligible one (radius >= MIN_SPLIT_RADIUS), the larger when both are
\* (either when both are and the radii are equal).
Victims(e) ==
  {v \in {e.a, e.b} :
     /\ v.radius >= MIN_SPLIT_RADIUS
     /\ \A o \in {e.a, e.b} : o.radius >= MIN_SPLIT_RADIUS => o.radius <= v.radius}

\* The pair of e was split as the claim says, with victim v: v is consumed
\* and in the removal set, the other ball is not consumed, and exactly two
\* balls were created, each at the computed split radius.
SplitAsClaimed(e, v) ==
  /\ e.kind = "split"
  /\ e.consumed = {v.id}
  /\ InCollisions => v.id \in loc.balls_to_remove
  /\ Cardinality(e.created) = 2
  /\ InCollisions =>
       /\ Cardinality({c \in Added : c.id \in e.created}) = 2
       /\ \A c \in Added : c.id \in e.created =>
            c.radius = SplitRadius(v.radius, SplitMassLoss(e.phase, e.impact_force))

\* C16 as stated: an approaching pair that is not merged, for which the
\* split roll succeeds and of which a ball has radius >= MIN_SPLIT_RADIUS,
\* is split.
C16_SplitWhenEligible ==
  \A e \in Events :
    (e.kind /= "merge" /\ e.roll /\ Victims(e) /= {}) =>
      \E v \in Victims(e) : SplitAsClaimed(e, v)

\* C16, amended: such a pair is split when, in addition, the computed
\* split radius of the victim is >= MIN_RADIUS; when it is below, the pair
\* is left as it is (nothing is removed or created).
C16_SplitWhenEligibleAndLargeEnough ==
  \A e \in Events :
    (e.kind /= "merge" /\ e.roll /\ Victims(e) /= {}) =>
      \E v \in Victims(e) :
        IF SplitRadius(v.radius, SplitMassLoss(e.phase, e.impact_force)) >= MIN_RADIUS
        THEN SplitAsClaimed(e, v)
        ELSE e.kind = "bounce" /\ e.consumed = {} /\ e.created = {}

\* A call has split a pair of two eligible balls of different radii.
C16_SplitAndRefused ==
  /\ InCollisions
  /\ \E e \in Events : /\ e.kind = "split"
                       /\ e.a.radius >= MIN_SPLIT_RADIUS /\ e.b.radius >= MIN_SPLIT_RADIUS
                       /\ e.a.radius /= e.b.radius

\* ------------------------------------------------------------------ C17

\* The time step the ball loop at hand passes to Ball.update: the capped
\* dt of the game phase, the intro's own dt in the lead-in.
UpdateDt == IF pc = "lead_in" THEN loc.update_dt ELSE loc.dt

\* C17: when Ball.update finds the radius after the growth step below
\* MIN_RADIUS, it sets should_remove and returns False (the game loop puts
\* the ball in its removal set), and leaves position, velocity, mass,
\* colour, hue and hit_wall_effect_info as they were: in the game loop,
\* which reads and clears hit_wall_effect_info after the call, the flash
\* is added exactly for a mark that was already set before the call.
C17_EarlyReturnLeavesBall ==
  [][\A k \in 1..Len(game_state.balls) :
       ( /\ pc \in {"lead_in", "update"}
         /\ loc.k = k
         /\ loc'.k = k + 1
         /\ game_state.balls[k].radius + Growth(UpdateDt) < MIN_RADIUS )
       => LET b == game_state.balls[k]
              c == game_state'.balls[k]
          IN /\ c.should_remove
             /\ c.radius = b.radius + Growth(UpdateDt)
             /\ c.position = b.position
             /\ c.velocity = b.velocity
             /\ c.mass = b.mass
             /\ c.current_color = b.current_color
             /\ c.hue = b.hue
             /\ IF pc = "lead_in"
                THEN c.hit_wall_effect_info = b.hit_wall_effect_info
                ELSE /\ c.id \in loc'.balls_to_remove_small
                     /\ Len(loc'.new_effects)
                          = Len(loc.new_effects)
                              + (IF b.hit_wall_effect_info THEN 1 ELSE 0)
    ]_vars

\* The ball loop has just updated a ball whose radius after the growth is
\* below MIN_RADIUS: the ball is marked and in the loop's removal set.
C17_EarlyReturned ==
  /\ pc = "update"
  /\ loc.k > 1
  /\ loc.k - 1 <= Len(game_state.balls)
  /\ LET c == game_state.balls[loc.k - 1]
     IN /\ c.radius < MIN_RADIUS
        /\ c.should_remove
        /\ c.updated
        /\ c.id \in loc.balls_to_remove_small

\* ------------------------------------------------------------------ C18

\* The ending sequence has started in this run, or the main loop has been
\* left: what remains is the ending loop, the exit of the main loop and
\* the cleanup.
PastRunning ==
  \/ pc = "ending"
  \/ pc = "loop" /\ ~game_state.running
  \/ pc = "stopped"

\* C18: a run moves only forward. Within a run (Game.__init__ starts
\* another one) intro_phase, once cleared, stays cleared; the ending
\* sequence is entered only from _run_game_phase, with the intro over and
\* elapsed >= MAX_GAME_DURATION; once the ending sequence has started,
\* all that follows is the ending loop, the exit of the main loop and the
\* cleanup, with no call of update_game_objects and no ball created; and
\* running, once False, stays False.
C18_OnlyForward ==
  [][ /\ (pc # "stopped" /\ ~game_state.intro_phase) => ~game_state'.intro_phase
      /\ (pc # "ending" /\ pc' = "ending")
           => /\ pc = "after_update"
              /\ ~game_state.intro_phase
              /\ loc.elapsed_time >= MAX_GAME_DURATION
      /\ PastRunning
           => /\ PastRunning'
              /\ Len(game_state'.balls) <= Len(game_state.balls)
              /\ game_state'.next_ball_id <= game_state.next_ball_id
      /\ ~game_state.running => ~game_state'.running
    ]_vars

\* The ending loop has run and ended the run by itself: the main loop has
\* been left, after a game phase that reached MAX_GAME_DURATION and made
\* balls.
C18_EndedAfterEnding ==
  /\ pc = "stopped"
  /\ ~game_state.intro_phase
  /\ ~game_state.running
  /\ game_state.finale_triggered
  /\ now - game_state.game_start_time >= MAX_GAME_DURATION + ENDING_DURATION
  /\ game_state.next_ball_id > INITIAL_BALLS

\* ------------------------------------------------------------------ C19

\* _run_intro_phase has just returned from the call that cleared
\* intro_phase: game_start_time is the time of that frame, and the next
\* frame has not begun.
IntroJustLeft ==
  /\ pc = "loop"
  /\ ~game_state.intro_phase
  /\ now = game_state.game_start_time

\* C19: when the run leaves the intro, game_state.balls holds exactly one
\* batch of create_initial_balls: INITIAL_BALLS balls, all of them from
\* create_initial_balls, and no other ball has been made since the reset.
\* During the intro the list holds no ball or one whole batch.
C19_OneInitialBatch ==
  /\ IntroJustLeft
       => /\ Len(game_state.balls) = INITIAL_BALLS
          /\ game_state.next_ball_id = INITIAL_BALLS
          /\ \A b \in Balls : b.origin = "initial"
  /\ (game_state.intro_phase /\ pc \notin {"create", "repel"})
       => /\ game_state.next_ball_id \in {0, INITIAL_BALLS}
          /\ Len(game_state.balls) = game_state.next_ball_id

\* The run has left the intro with the batch of the early creation of
\* render_intro, which the lead-in loop has updated.
C19_LeftWithEarlyBatch ==
  /\ IntroJustLeft
  /\ Len(game_state.balls) = INITIAL_BALLS
  /\ \E b \in Balls : b.updated

\* ------------------------------------------------------------------ C20

\* C20: after reset(), whatever the state before: balls, particles and
\* effects are empty, next_ball_id is 0, intro_phase is True,
\* finale_triggered is False, the phase is CALM, the adaptive parameters
\* have the values of construction, screen_shake_timer is 0 and the
\* screen offset is the zero vector.
C20_ResetClears ==
  [][(pc = "stopped" /\ pc' = "loop")
       => /\ game_state'.balls = <<>>
          /\ game_state'.particles = <<>>
          /\ game_state'.effects = <<>>
          /\ game_state'.next_ball_id = 0
          /\ game_state'.intro_phase
          /\ ~game_state'.finale_triggered
          /\ game_state'.current_phase = "CALM"
          /\ game_state'.parameters.current_collision_shrink_factor = 0
          /\ game_state'.parameters.current_elasticity_base = ONE
          /\ game_state'.parameters.current_elasticity_variance = 0
          /\ game_state'.parameters.current_split_chance = 0
          /\ game_state'.parameters.current_merge_threshold = 70
          /\ game_state'.parameters.current_gravity_strength = 100
          /\ game_state'.screen_shake_timer = 0
          /\ game_state'.current_screen_offset = ZeroVec
    ]_vars

\* reset() has run after a game that lasted into its late phases: the
\* intro of the new game starts now, more than an intro and a full game
\* duration after the first one.
C20_ResetAfterGame ==
  /\ pc = "loop"
  /\ game_state.intro_phase
  /\ game_state.intro_start_time = now
  /\ now >= T0 + INTRO_DURATION + MAX_GAME_DURATION
  /\ game_state.balls = <<>>
  /\ game_state.current_phase = "CALM"

\* ------------------------------------------------------------------ C21

\* Two balls whose colours are closer than the merge threshold of the CALM
\* phase.
CalmMergeable(a, b) ==
  ColorCloser(a.current_color, b.current_color,
              AdaptiveParameters("CALM", 0).current_merge_threshold)

\* C21: when create_initial_balls returns, no two balls of the collection
\* have colours closer than the merge threshold of the CALM phase,
\* whatever colours were drawn.
C21_InitialColoursApart ==
  [][(pc = "repel" /\ pc' = "loop")
       => \A a, b \in {game_state'.balls[k] : k \in DOMAIN game_state'.balls} :
            a.id /= b.id => ~CalmMergeable(a, b)
    ]_vars

\* ------------------------------------------------------------------ C22

\* A step that ends the processing of a frame: the return of
\* _run_intro_phase or _run_game_phase to the main loop, or one iteration
\* of the ending loop.
FrameProcessed ==
  \/ pc \in {"intro_check", "repel", "after_update"} /\ pc' \in {"loop", "ending"}
  \/ pc = "ending" /\ game_state.running

\* C22: after the processing of a frame, in the intro, the game phase or
\* the ending, game_state.particles holds no particle whose age at the time
\* of that frame is above its lifespan.
C22_NoParticleOutlivesLifespan ==
  [][FrameProcessed
       => \A k \in DOMAIN game_state'.particles :
            now - game_state'.particles[k].start_time
              <= game_state'.particles[k].lifespan
    ]_vars

\* ------------------------------------------------------------------ C23

\* C23: every run ends: game_state.running eventually becomes False,
\* whatever the random draws and with or without a quit request.
C23_RunEnds == <>(~game_state.running)

\* ------------------------------------------------------------------ C24

\* C24: a ball that the ball loop of update_game_objects has put in its
\* pop-removal set takes no part in handle_ball_collisions of the same
\* tick: no pair that the collision loop resolves (a merge, a split or a
\* bounce, which changes both balls) has such a ball in it.
C24_PoppedBallsSitOut ==
  InCollisions =>
    \A e \in Events :
      /\ e.a.id \notin loc.balls_to_remove_small
      /\ e.b.id \notin loc.balls_to_remove_small

\* ------------------------------------------------------------------ C25

\* C25: every dt passed to Ball.update and to update_game_objects is
\* within [0, 0.05] s: the capped dt of the game phase, and the reduced dt
\* of the lead-in of the intro.
C25_DtWithinCap ==
  pc \in {"lead_in", "objects", "update"} => (0 <= UpdateDt /\ UpdateDt <= DT_CAP)

\* ------------------------------------------------------------------ C26

\* The pair (i, j) that handle_ball_collisions is about to resolve is not
\* approaching: the relative velocity along the contact normal is >= 0.
PairNotApproaching ==
  LET a == game_state.balls[loc.i]
      b == game_state.balls[loc.j]
      normal == PairNormal(game_state.balls, loc.i, loc.j)
  IN ~(RoundDiv(VDot(VSub(a.velocity, b.velocity), normal), ONE) < 0)

\* overlap = min_dist - dist of that pair, in 1/PX px.
PairOverlap ==
  game_state.balls[loc.i].radius + game_state.balls[loc.j].radius
    - PairDist(game_state.balls, loc.i, loc.j)

\* C26: for an overlapping pair that is not approaching,
\* handle_ball_collisions changes only the positions of the two balls,
\* which move apart (an overlap below two units of 1/PX px can round to no
\* move at all): every other field of every ball, the balls to add and to
\* remove, the effects, the particles, the shake timer and the sounds are as
\* before, and nothing is merged or split.
C26_ApartPairOnlyMoves ==
  [][(pc = "collide" /\ PairNotApproaching)
       => /\ Len(game_state'.balls) = Len(game_state.balls)
          /\ \A k \in DOMAIN game_state.balls :
               IF k \in {loc.i, loc.j}
               THEN [game_state'.balls[k] EXCEPT !.position = game_state.balls[k].position]
                      = game_state.balls[k]
               ELSE game_state'.balls[k] = game_state.balls[k]
          /\ PairDist(game_state'.balls, loc.i, loc.j) >= PairDist(game_state.balls, loc.i, loc.j)
          /\ PairOverlap >= 2
               => PairDist(game_state'.balls, loc.i, loc.j) > PairDist(game_state.balls, loc.i, loc.j)
          /\ [game_state' EXCEPT !.balls = game_state.balls] = game_state
          /\ loc'.balls_to_add = loc.balls_to_add
          /\ loc'.balls_to_remove = loc.balls_to_remove
          /\ sounds' = sounds
          /\ \A n \in DOMAIN log' : n > Len(log) => log'[n].kind = "apart"
    ]_vars

\* handle_ball_collisions has moved apart an overlapping pair that was not
\* approaching.
C26_MovedApart ==
  /\ InCollisions
  /\ \E e \in Events : e.kind = "apart"

\* ------------------------------------------------------------------ C27

\* C27: the colour-repulsion loops of create_initial_balls end, whatever
\* colours are drawn: control that is in them eventually leaves them.
C27_RepulsionEnds == (pc = "repel") ~> (pc /= "repel")

\* ------------------------------------------------------------------ C28

\* C28: screen_shake_timer is always within [0, 3 * SHAKE_DURATION]; when
\* update_game_objects returns, after update_screen_shake, the offset is
\* the zero vector if the timer is 0, and has both components within
\* [-SHAKE_INTENSITY, SHAKE_INTENSITY] otherwise.
C28_ShakeWellFormed ==
  /\ 0 <= game_state.screen_shake_timer
  /\ game_state.screen_shake_timer <= 3 * SHAKE_DURATION
  /\ pc = "after_update"
       => IF game_state.screen_shake_timer = 0
          THEN game_state.current_screen_offset = ZeroVec
          ELSE /\ Abs(game_state.current_screen_offset.x) <= SHAKE_INTENSITY
               /\ Abs(game_state.current_screen_offset.y) <= SHAKE_INTENSITY

\* update_game_objects returns with the shake running: the timer is
\* positive and the offset was drawn.
C28_Shaking ==
  /\ pc = "after_update"
  /\ game_state.screen_shake_timer > 0
  /\ game_state.current_screen_offset /= ZeroVec

\* ------------------------------------------------------------------ C29

\* What the claim calls simulation state.
SimulationState(gs) ==
  <<gs.balls, gs.particles, gs.effects, gs.next_ball_id,
    gs.screen_shake_timer, gs.current_screen_offset>>
\* The entity collections.
EntityCollections(gs) == <<gs.balls, gs.particles, gs.effects>>

\* GameRenderer.render_intro is running: its own body, or the
\* create_initial_balls it calls while the intro is still on (_run_intro_phase
\* clears intro_phase before its own call).
InRenderIntro ==
  \/ pc = "intro_check" /\ IntroElapsed < INTRO_DURATION
  \/ pc \in {"create", "repel"} /\ game_state.intro_phase
\* The ending loop of _run_ending_sequence, which calls render_ending.
InRenderEnding == pc = "ending"
\* update_game_objects, create_initial_balls, and the steps that call
\* spawn_fresh_ball outside update_game_objects.
InUpdateOrSpawn ==
  pc \in {"objects", "update", "collide", "finish", "create", "repel", "transition"}

\* C29: rendering never changes simulation state: a step of render_intro or
\* render_ending leaves the balls, the particles, the effects, next_ball_id
\* and the shake state as they were (render_frame is part of the step that
\* ends _run_game_phase and draws only), and the entity collections change
\* only in update_game_objects or in a spawn entry point.
C29_RenderingLeavesState ==
  [][/\ (InRenderIntro \/ InRenderEnding)
          => SimulationState(game_state') = SimulationState(game_state)
     /\ EntityCollections(game_state') /= EntityCollections(game_state)
          => InUpdateOrSpawn]_vars

\* ------------------------------------------------------------------ C30

\* update_phase has entered phase p in this run: it stamps
\* phase_start_times[p] as it does, and reset clears the stamp.
PhaseEntered(p) == game_state.phase_start_times[p] /= 0

\* C30: the phase visits CALM, BUILD, CHAOS, FINALE in that order, never
\* skipping one and never going back, and the phase-transition handler runs
\* exactly once for each of BUILD, CHAOS and FINALE before the run ends:
\* within a run every change of current_phase goes to the next phase in the
\* order and is made by the update_phase call of _run_game_phase, which then
\* runs the handler (the calls in update_game_objects and
\* handle_ball_collisions never make the change themselves), and when the
\* run reaches its ending sequence each of BUILD, CHAOS and FINALE has been
\* entered.
C30_PhasesInOrderHandledOnce ==
  [][/\ (pc /= "stopped" /\ game_state'.current_phase /= game_state.current_phase)
          => /\ PhaseOrder(game_state'.current_phase)
                  = PhaseOrder(game_state.current_phase) + 1
             /\ pc = "game"
             /\ pc' = "transition"
     /\ (pc = "after_update" /\ pc' = "ending")
          => \A p \in {"BUILD", "CHAOS", "FINALE"} : PhaseEntered(p)]_vars

====
